---- MODULE Spec2Model ----
(***************************************************************************)
(* Ray construction, adaptive sampling, lazy coefficient computation and   *)
(* integration of vernon's geometry module (src/pylib/geometry.py).        *)
(*                                                                         *)
(* Lengths along the line of sight are integers in "ticks":                *)
(* BodyRadius ticks make one body radius.  A sampled ray stores each z     *)
(* multiplied by the ray's denominator zden, so that the rational sample   *)
(* positions of np.linspace and of the adaptive loop stay exact.           *)
(***************************************************************************)
EXTENDS Integers, Sequences, FiniteSets, TLC

\* ------------------------------------------------------------------ bounds
\* Source value of min_n_pts is 200 (geometry.py:973); MinStepInv stands for
\* the 1e5 of "min_step_size = 1e-5 * (z1 - z0)" (geometry.py:1001).  Both are
\* scaled down so that every path of the adaptive loop can be enumerated; the
\* adaptive loop only depends on them through MinStepInv > min_n_pts.
min_n_pts == 3
MinStepInv == 6
\* Source value of warn_n_pts is 1000 (geometry.py:972), scaled likewise.
warn_n_pts == 5
\* Source value of nsamps is 300 (geometry.py:889), scaled.
nsamps == 4
\* How many ensure_rt_coeffs / integrate calls are made on one finished ray.
MaxCalls == 2
\* Scale that turns max_dxlam1 / lam1 / radius into scaled ticks.
DxUnit == 160

\* Source values of ImageMaker.nx and ny are 23 (geometry.py:1498-1499), scaled.
nx == 2
ny == 4
\* Angles are whole multiples of pi / (2 * AngRes).
AngRes == 2

\* --------------------------------------------------------- program constants
BodyRadius == 100
surface_delta_radius == 3
way_back_z == -1500
way_front_z == 1500
delta_z == 100
ne0_cutoff == 1
max_dxlam1 == 50

\* ------------------------------------------------------------------ inputs
\* Pixels (x, y) in ticks: centre of the disk, a point on the limb
\* (x^2 + y^2 = 1 exactly), a point just outside the limb.
Pixels == {<<0, 0>>, <<60, 80>>, <<0, 101>>}
\* The density along a line of sight is piecewise constant on NSeg segments
\* that start at the ticks SegStart; each segment has a density in NeVals
\* (below, at and above ne0_cutoff).
SegStart == <<way_back_z, -700, 700, 1450>>
NSeg == Len(SegStart)
NeVals == {0, 1, 2}
Profiles == [1..NSeg -> NeVals]
\* lambda_1 of the coefficients the synchrotron calculator returns at a point
\* (0: all coefficients zero).
CoeffVals == {0, 1}
Radii == {2}
Tracers == {"Basic", "Formal"}
parameter_names == <<"n_e", "p">>
\* shapes of the value func returns for one ray: a scalar, a vector
VShapes == {<<>>, <<2>>}
Moments == {0 - 3000, 3000}

\* Python's None for an array attribute that is not set
None == <<>>

VARIABLES
  setup,      \* the VanAllenSetup: ray_tracer, radius, nu, distrib (profile)
  px,         \* the pixel (x, y) create_ray was called with
  pc,         \* position inside create_ray / life of the Ray
  z0, z1,     \* create_ray's locals z0, z1 (ticks)
  zsamps, nesamps, \* create_ray's coarse samples and their densities
  err,        \* the exception create_ray raised, or None
  z, i, buf,  \* locals of FormalRayTracer._sample_ray (z scaled by SDen)
  ulp,        \* the spacing of the doubles around z (scaled by SDen)
  dzs,        \* the steps dz added to z so far (scaled by SDen)
  n_warn,     \* number of 'XXX challenging ray' lines printed
  dq,         \* log of distribution queries: set of <<phase, just_ne>>
  cq,         \* log of get_coeffs calls: set of phases
  ray,        \* the Ray returned by create_ray, or None
  rt_calls,   \* get_coeffs calls made by Ray.ensure_rt_coeffs
  n_ops,      \* ensure_rt_coeffs / integrate calls made on the ray
  last,       \* the last integrate call: its arguments and what it returned
  \* ImageMaker.image_ray_func
  img_pc,     \* position inside image_ray_func
  img_args,   \* its arguments and the shape of func's value
  running,    \* relative row indices whose callback has not returned yet
  rows,       \* what ppmap has collected: relative row index -> row buffer
  order,      \* the relative row indices in the order the workers finished
  image,      \* the array image_ray_func returned
  serial_image, \* the array the same call returned with parallel=False
  \* constructors of ObserverToBodycentric and TiltedDipoleField
  ctor_call,  \* the last constructor call: class and arguments
  obj,        \* the object that call returned, NoObj if it raised
  ctor_err,   \* the exception that call raised, "None" if it returned
  \* PrecomputedImageMaker
  cur_frame_group, \* the frame's cache: its kind, its counts, its depth
  pre_call,   \* the last get_ray call: <<ix, iy>>
  pre_ray,    \* the Ray that call returned, NoPreRay if it raised
  pre_err,    \* the exception that call raised
  pre_reads,  \* the reads that call made of the cache, in order
  \* IntegratedImages
  ds,         \* the four Stokes planes of the one frame of the file
  sel_call,   \* the last frame / flux call: method, i_stokes, yflip
  sel_result, \* <<what the call returned>>, <<>> if it raised
  sel_err,    \* the exception that call raised, "None" if it returned
  \* coordinate transforms
  xf_pc,      \* how far the round trip has got
  xf_obj,     \* the ObserverToBodycentric or TiltedDipoleField in use
  xf_in,      \* the (lat, lon, r) the round trip starts from
  xf_obs,     \* what ObserverToBodycentric.inverse returned: (x, y, z)
  xf_dc,      \* what TiltedDipoleField._to_dc returned: (lat, lon, r)
  xf_out,     \* the (lat, lon, r) the round trip ends with
  \* a parallel image computation of a PrecomputedImageMaker
  par_pc,     \* position inside image_ray_func
  par_args,   \* its arguments first_row and n_rows
  sample_ray, \* the ray of the sample computation
  wk,         \* the callback calls: relative row -> its locals ix, ray, buf
  par_rows,   \* what ppmap has collected: relative row -> what came back
  par_log,    \* who read which dataset of the frame, and through what
  par_image,  \* the array image_ray_func returned
  \* integrate.seed_cli
  seed_pc,    \* position inside seed_cli
  seed,       \* its locals
  tasks,      \* the task lines printed so far
  \* integrate.assemble_cli
  asm_pc,     \* position inside assemble_cli
  files,      \* the result files in the order glob.glob listed them
  asm,        \* its locals n_rows, max_start_row, info_by_image
  asm_out     \* the datasets written to the output file, or the exception

rayVars == <<setup, px, pc, z0, z1, zsamps, nesamps, err, z, i, buf, ulp, dzs,
             n_warn, dq, cq, ray, rt_calls, n_ops, last>>
imgVars == <<img_pc, img_args, running, rows, order, image, serial_image>>
ctorVars == <<ctor_call, obj, ctor_err>>
cacheVars == <<cur_frame_group, pre_call, pre_ray, pre_err, pre_reads>>
selVars == <<ds, sel_call, sel_result, sel_err>>
xfVars == <<xf_pc, xf_obj, xf_in, xf_obs, xf_dc, xf_out>>
parVars == <<par_pc, par_args, sample_ray, wk, par_rows, par_log, par_image>>
seedVars == <<seed_pc, seed, tasks>>
asmVars == <<asm_pc, files, asm, asm_out>>
vars == <<rayVars, imgVars, ctorVars, cacheVars, selVars, xfVars, parVars,
          seedVars, asmVars>>
\* what the operations on one object leave alone
nonRayVars == <<imgVars, ctorVars, cacheVars, selVars, xfVars,
                parVars, seedVars, asmVars>>
nonImgVars == <<rayVars, ctorVars, cacheVars, selVars, xfVars,
                parVars, seedVars, asmVars>>
nonCtorVars == <<rayVars, imgVars, cacheVars, selVars, xfVars,
                 parVars, seedVars, asmVars>>
nonCacheVars == <<rayVars, imgVars, ctorVars, selVars, xfVars,
                  parVars, seedVars, asmVars>>
nonSelVars == <<rayVars, imgVars, ctorVars, cacheVars, xfVars,
                parVars, seedVars, asmVars>>
nonXfVars == <<rayVars, imgVars, ctorVars, cacheVars, selVars,
               parVars, seedVars, asmVars>>
\* a parallel computation of a PrecomputedImageMaker works on the cache too
nonParVars == <<rayVars, imgVars, ctorVars, selVars, xfVars, seedVars, asmVars>>
nonSeedVars == <<rayVars, imgVars, ctorVars, cacheVars, selVars, xfVars,
                 parVars, asmVars>>
nonAsmVars == <<rayVars, imgVars, ctorVars, cacheVars, selVars, xfVars,
                parVars, seedVars>>

\* ----------------------------------------------------------------- helpers
Min(a, b) == IF a <= b THEN a ELSE b
Max(a, b) == IF a >= b THEN a ELSE b

RECURSIVE ISqrtFrom(_, _)
ISqrtFrom(n, r) == IF (r + 1) * (r + 1) > n THEN r ELSE ISqrtFrom(n, r + 1)
\* np.sqrt, rounded down to a whole tick
ISqrt(n) == ISqrtFrom(n, 0)

\* the segment a tick lies in
SegOf(t) == CHOOSE k \in 1..NSeg :
              /\ SegStart[k] <= t
              /\ (k = NSeg \/ t < SegStart[k + 1])

\* z_to_ne: o2b, bfield and distrib.get_samples(just_ne=True)[0] at tick t
z_to_ne(t) == setup.distrib[SegOf(t)]

\* density at a scaled position zz / den (rounded down to a tick)
NeAt(zz, den) == z_to_ne(zz \div den)

ConstSeq(n, v) == [k \in 1..n |-> v]

RECURSIVE SeqMin(_)
SeqMin(q) == IF Len(q) = 1 THEN q[1] ELSE Min(q[1], SeqMin(Tail(q)))

\* np.arange(a, b, step)
arange(a, b, step) ==
  [k \in 1..((b - a + step - 1) \div step) |-> a + (k - 1) * step]

\* linspace that leaves the end point out (endpoint=False), rounded down
linspace_open(a, b, n) ==
  [k \in 1..n |-> a * (n - 1) + ((k - 1) * (b - a) * (n - 1)) \div n]

\* np.linspace(a, b, n), every element multiplied by n - 1
linspace(a, b, n) == [k \in 1..n |-> a * (n - 1) + (k - 1) * (b - a)]

\* ------------------------------------------------------------------- Ray
\* Values that bhat/theta_zhat/bmag/theta_yhat_projected and the
\* distribution's power-law index take where they are really computed.
Computed == 1

\* no Ray object
NoRay == [x |-> 0, y |-> 0, z |-> None, zden |-> 1,
          s |-> None, theta |-> None, B |-> None, psi |-> None,
          n_e |-> None, p |-> None, j |-> None, alpha |-> None, rho |-> None]
\* no exception
NoErr == [type |-> "None", raiser |-> "None", args |-> <<>>]

\* PathLength with the difference taken the wrong way round
PathLength_flipped(zz) == [k \in 1..Len(zz) |-> (SeqMin(zz) - zz[k]) * setup.radius]

\* Ray.__init__, line 1146: the path length (scaled like z)
PathLength(zz) == [k \in 1..Len(zz) |-> (zz[k] - SeqMin(zz)) * setup.radius]

\* Derived without its zeros branch
Derived_ignoreZeros(zz, zden, zeros) ==
  LET n == Len(zz)
  IN  [theta |-> ConstSeq(n, Computed), B |-> ConstSeq(n, Computed),
       psi |-> ConstSeq(n, Computed),
       n_e |-> [k \in 1..n |-> NeAt(zz[k], zden)],
       p |-> ConstSeq(n, Computed)]

\* Ray.__init__, lines 1150-1164: theta, B, psi and the distribution's
\* parameters at every sample
Derived(zz, zden, zeros) ==
  LET n == Len(zz)
  IN  IF zeros
      THEN [theta |-> ConstSeq(n, 0), B |-> ConstSeq(n, 0), psi |-> ConstSeq(n, 0),
            n_e |-> ConstSeq(n, 0), p |-> ConstSeq(n, 0)]
      ELSE [theta |-> ConstSeq(n, Computed), B |-> ConstSeq(n, Computed),
            psi |-> ConstSeq(n, Computed),
            n_e |-> [k \in 1..n |-> NeAt(zz[k], zden)],
            p |-> ConstSeq(n, Computed)]

\* Ray.__init__(x, y, z, setup, zeros, no_init); z is scaled by zden
NewRay(x, y, zz, zden, zeros, no_init) ==
  LET base == [NoRay EXCEPT !.x = x, !.y = y, !.z = zz, !.zden = zden]
      d == Derived(zz, zden, zeros)
  IN  IF no_init THEN base
      ELSE [base EXCEPT !.s = PathLength(zz),
                        !.theta = d.theta, !.B = d.B, !.psi = d.psi,
                        !.n_e = d.n_e, !.p = d.p]

\* ------------------------------------------------------------- create_ray
\* EntryZ that takes the limb itself for the outside of the disk
EntryZ_limbOutside(x, y) ==
  IF x * x + y * y < BodyRadius * BodyRadius
  THEN ISqrt((BodyRadius + surface_delta_radius) * (BodyRadius + surface_delta_radius)
             - (x * x + y * y))
  ELSE way_back_z

\* lines 907-914: where the search starts
EntryZ(x, y) ==
  IF x * x + y * y <= BodyRadius * BodyRadius
  THEN ISqrt((BodyRadius + surface_delta_radius) * (BodyRadius + surface_delta_radius)
             - (x * x + y * y))
  ELSE way_back_z

ofs_n_e(t) == z_to_ne(t) - ne0_cutoff

\* A tick that scipy's brentq can return for the bracket lo..hi: a zero of
\* ofs_n_e at the edge of a run of zeros, or one of the two ticks next to a
\* change of sign (the function is a step function there, and brentq stops
\* within its tolerance of the step, on either side).
IsRoot(t, lo, hi) ==
  \/ /\ ofs_n_e(t) = 0
     /\ (t = lo \/ t = hi \/ ofs_n_e(t - 1) # 0 \/ ofs_n_e(t + 1) # 0)
  \/ t < hi /\ ofs_n_e(t) * ofs_n_e(t + 1) < 0
  \/ t > lo /\ ofs_n_e(t - 1) * ofs_n_e(t) < 0

\* brentq that looks for its root along the whole ray
brentq_anyRoot(a, b) ==
  LET lo == way_back_z
      hi == way_front_z
  IN  IF ofs_n_e(a) * ofs_n_e(b) > 0
      THEN {[kind |-> "ValueError", x |-> a, converged |-> FALSE]}
      ELSE {[kind |-> "ok", x |-> t, converged |-> TRUE] :
               t \in {u \in lo..hi : IsRoot(u, lo, hi)}}
           \cup {[kind |-> "ok", x |-> lo + (hi - lo) \div 2, converged |-> FALSE],
                 [kind |-> "RuntimeError", x |-> a, converged |-> FALSE]}

\* brentq(ofs_n_e, a, b, full_output=True): the outcomes
\*   ValueError when f(a) and f(b) have the same sign,
\*   (x0, converged) otherwise, and brentq's own RuntimeError when it does
\*   not converge and disp is left at its default.
brentq(a, b) ==
  LET lo == Min(a, b)
      hi == Max(a, b)
  IN  IF ofs_n_e(a) * ofs_n_e(b) > 0
      THEN {[kind |-> "ValueError", x |-> a, converged |-> FALSE]}
      ELSE {[kind |-> "ok", x |-> t, converged |-> TRUE] :
               t \in {u \in lo..hi : IsRoot(u, lo, hi)}}
           \cup {[kind |-> "ok", x |-> lo + (hi - lo) \div 2, converged |-> FALSE],
                 [kind |-> "RuntimeError", x |-> a, converged |-> FALSE]}

\* the coarse samples above the cutoff: zsamps[nesamps > ne0_cutoff]
Above == {zsamps[k] : k \in {m \in 1..Len(zsamps) : nesamps[m] > ne0_cutoff}}
SetMin(S) == CHOOSE m \in S : \A o \in S : m <= o
SetMax(S) == CHOOSE m \in S : \A o \in S : m >= o

SDen == min_n_pts * MinStepInv

sampleVars == <<z, i, buf, dzs, n_warn, cq>>
rayOpVars == <<rt_calls, n_ops, last>>

\* the Setup with its observing frequency changed
SetupAfter_retuned(s) == [s EXCEPT !.nu = 2]

\* The Setup an operation was handed, as that operation leaves it.
\* create_ray, _sample_ray, Ray.__init__, ensure_rt_coeffs and integrate
\* read and call setup.o2b, .bfield, .distrib, .ray_tracer, .synch_calc,
\* .rad_trans, .radius and .nu; none of them assigns to a field.
SetupAfter(s) == s

\* create_ray, lines 907-914
Begin ==
  /\ pc = "start"
  /\ z0' = EntryZ(px[1], px[2])
  /\ z1' = way_front_z
  /\ pc' = "searching"
  /\ setup' = SetupAfter(setup)
  /\ UNCHANGED <<ulp, px, zsamps, nesamps, err, sampleVars, dq, ray, rayOpVars>>
  /\ UNCHANGED nonRayVars

\* Search that hands the empty ray's bounds on to _sample_ray
Search_sampleEmpty ==
  /\ pc = "searching"
  /\ LET zs == arange(z0, z1, delta_z)
         ns == [k \in 1..Len(zs) |-> z_to_ne(zs[k])]
     IN  /\ zsamps' = zs
         /\ nesamps' = ns
         /\ dq' = dq \cup {<<"searching", TRUE>>}
         /\ ray' = ray
         /\ IF ~(\E k \in 1..Len(ns) : ns[k] > ne0_cutoff)
            THEN pc' = "sampling"
            ELSE pc' = "refine_start"
  /\ setup' = SetupAfter(setup)
  /\ UNCHANGED <<ulp, px, z0, z1, err, sampleVars, rayOpVars>>
  /\ UNCHANGED nonRayVars

\* create_ray, lines 924-935: the coarse search, and the empty ray
Search ==
  /\ pc = "searching"
  /\ LET zs == arange(z0, z1, delta_z)
         ns == [k \in 1..Len(zs) |-> z_to_ne(zs[k])]
     IN  /\ zsamps' = zs
         /\ nesamps' = ns
         /\ dq' = dq \cup {<<"searching", TRUE>>}
         /\ IF ~(\E k \in 1..Len(ns) : ns[k] > ne0_cutoff)
            THEN /\ ray' = NewRay(px[1], px[2], linspace(z0, z1, 2), 1, TRUE, FALSE)
                 /\ pc' = "complete"
            ELSE /\ ray' = ray
                 /\ pc' = "refine_start"
  /\ setup' = SetupAfter(setup)
  /\ UNCHANGED <<ulp, px, z0, z1, err, sampleVars, rayOpVars>>
  /\ UNCHANGED nonRayVars

\* create_ray, lines 937-947
RefineStart ==
  /\ pc = "refine_start"
  /\ IF nesamps[1] < ne0_cutoff
     THEN LET zstart == SetMin(Above)
          IN  \E r \in brentq(z0, zstart) :
                /\ dq' = dq \cup {<<"refine_start", TRUE>>}
                /\ IF r.kind # "ok"
                   THEN /\ err' = [type |-> r.kind, raiser |-> "brentq", args |-> <<>>]
                        /\ pc' = "failed"
                        /\ z0' = z0
                   ELSE /\ z0' = r.x
                        /\ IF ~r.converged
                           THEN /\ err' = [type |-> "RuntimeError",
                                           raiser |-> "starting point",
                                           args |-> <<z0', zstart>>]
                                /\ pc' = "failed"
                           ELSE /\ err' = err
                                /\ pc' = "refine_end"
     ELSE /\ pc' = "refine_end"
          /\ UNCHANGED <<z0, err, dq>>
  /\ setup' = SetupAfter(setup)
  /\ UNCHANGED <<ulp, px, z1, zsamps, nesamps, sampleVars, ray, rayOpVars>>
  /\ UNCHANGED nonRayVars

\* create_ray, lines 949-959
RefineEnd ==
  /\ pc = "refine_end"
  /\ IF nesamps[Len(nesamps)] < ne0_cutoff
     THEN LET zstart == SetMax(Above)
          IN  \E r \in brentq(z1, zstart) :
                /\ dq' = dq \cup {<<"refine_end", TRUE>>}
                /\ IF r.kind # "ok"
                   THEN /\ err' = [type |-> r.kind, raiser |-> "brentq", args |-> <<>>]
                        /\ pc' = "failed"
                        /\ z1' = z1
                   ELSE /\ z1' = r.x
                        /\ IF ~r.converged
                           THEN /\ err' = [type |-> "RuntimeError",
                                           raiser |-> "ending point",
                                           args |-> <<z1', zstart>>]
                                /\ pc' = "failed"
                           ELSE /\ err' = err
                                /\ pc' = "sampling"
     ELSE /\ pc' = "sampling"
          /\ UNCHANGED <<z1, err, dq>>
  /\ setup' = SetupAfter(setup)
  /\ UNCHANGED <<ulp, px, z0, zsamps, nesamps, sampleVars, ray, rayOpVars>>
  /\ UNCHANGED nonRayVars

\* BasicRayTracer._sample_ray, lines 966-968
SampleFixed ==
  /\ pc = "sampling"
  /\ setup.ray_tracer = "Basic"
  /\ ray' = NewRay(px[1], px[2], linspace(z0, z1, nsamps), nsamps - 1, FALSE, FALSE)
  /\ dq' = dq \cup {<<"sampling", FALSE>>}
  /\ pc' = "complete"
  /\ setup' = SetupAfter(setup)
  /\ UNCHANGED <<ulp, px, z0, z1, zsamps, nesamps, err, sampleVars, rayOpVars>>
  /\ UNCHANGED nonRayVars

\* ------------------------------------------- FormalRayTracer._sample_ray
\* line 1000 and line 1001, scaled by SDen
max_step_size == ((z1 - z0) * SDen) \div min_n_pts
min_step_size == ((z1 - z0) * SDen) \div MinStepInv

\* the number of iterations of the while loop the model follows
MaxSteps == 9

\* a row of np.empty that was never written
Garbage == "garbage"

\* lines 1025-1029: lambda_1 of the coefficients c
lam1(c) == c

\* StepSize without the cap of line 1033
StepSize_nocap(c, zz) ==
  LET dz1 == IF lam1(c) = 0
             THEN z1 * SDen - zz
             ELSE (max_dxlam1 * DxUnit) \div (lam1(c) * setup.radius)
      dz2 == Min(dz1, z1 * SDen - zz)
  IN  Max(dz2, min_step_size)

\* StepSize without the floor of line 1035
StepSize_nofloor(c, zz) ==
  LET dz1 == IF lam1(c) = 0
             THEN max_step_size
             ELSE Min((max_dxlam1 * DxUnit) \div (lam1(c) * setup.radius),
                      max_step_size)
  IN  Min(dz1, z1 * SDen - zz)

\* lines 1030-1035: the step taken from scaled position zz with coefficients c
StepSize(c, zz) ==
  LET dz1 == IF lam1(c) = 0
             THEN max_step_size          \* dx is inf: min(inf, max_step_size)
             ELSE Min((max_dxlam1 * DxUnit) \div (lam1(c) * setup.radius),
                      max_step_size)
      dz2 == Min(dz1, z1 * SDen - zz)
  IN  Max(dz2, min_step_size)

\* Addition of doubles, line 1051: the sum v rounded to the nearest multiple
\* of the spacing u, ties to the even multiple
fl(v, u) ==
  LET q == v \div u
      rem == v % u
  IN  IF 2 * rem < u THEN q * u
      ELSE IF 2 * rem > u THEN (q + 1) * u
      ELSE IF q % 2 = 0 THEN q * u ELSE (q + 1) * u

\* Grow that waits until the buffer has overflowed
Grow_late(b, idx) ==
  IF idx = Len(b)
  THEN [k \in 1..(2 * Len(b)) |-> IF k <= Len(b) THEN b[k] ELSE Garbage]
  ELSE b

\* lines 1046-1049: the buffer after row i (0-based) has been written
Grow(b, idx) ==
  IF idx = Len(b) - 1
  THEN [k \in 1..(2 * Len(b)) |-> IF k <= Len(b) THEN b[k] ELSE Garbage]
  ELSE b

\* lines 1000-1004
SampleInit ==
  /\ pc = "sampling"
  /\ setup.ray_tracer = "Formal"
  /\ buf' = ConstSeq(min_n_pts, Garbage)
  /\ i' = 0
  /\ z' = z0 * SDen
  /\ pc' = "loop"
  /\ setup' = SetupAfter(setup)
  /\ UNCHANGED <<ulp, px, z0, z1, zsamps, nesamps, err, dzs, n_warn, dq, cq,
                 ray, rayOpVars>>
  /\ UNCHANGED nonRayVars

\* lines 1006-1052: one iteration of the while loop
SampleStep ==
  /\ pc = "loop"
  /\ z <= z1 * SDen
  /\ i < MaxSteps               \* the model follows the loop this far
  /\ n_warn' = IF i >= warn_n_pts /\ i % warn_n_pts = 0 THEN n_warn + 1 ELSE n_warn
  /\ dq' = dq \cup {<<"sampling", FALSE>>}
  /\ cq' = cq \cup {"sampling"}
  /\ \E c \in CoeffVals :
       LET dz == StepSize(c, z)
           row == [z |-> z, B |-> Computed, theta |-> Computed, psi |-> Computed,
                   j |-> c, alpha |-> c, rho |-> c,
                   n_e |-> NeAt(z, SDen), p |-> Computed]
       IN  /\ buf' = Grow([buf EXCEPT ![i + 1] = row], i)
           /\ i' = i + 1
           /\ z' = fl(z + dz, ulp)
           /\ dzs' = Append(dzs, dz)
  /\ setup' = SetupAfter(setup)
  /\ UNCHANGED <<ulp, px, pc, z0, z1, zsamps, nesamps, err, ray, rayOpVars>>
  /\ UNCHANGED nonRayVars

Col(b, n, f) == [k \in 1..n |-> b[k][f]]

\* lines 1054-1068: the loop has ended, the Ray is filled from the buffer
SampleFinish ==
  /\ pc = "loop"
  /\ ~(z <= z1 * SDen)
  /\ LET r == NewRay(px[1], px[2], Col(buf, i, "z"), SDen, FALSE, TRUE)
     IN  ray' = [r EXCEPT
                   !.s = [k \in 1..i |-> (r.z[k] - r.z[1]) * setup.radius],
                   !.B = Col(buf, i, "B"),
                   !.theta = Col(buf, i, "theta"),
                   !.psi = Col(buf, i, "psi"),
                   !.j = Col(buf, i, "j"),
                   !.alpha = Col(buf, i, "alpha"),
                   !.rho = Col(buf, i, "rho"),
                   !.n_e = Col(buf, i, "n_e"),
                   !.p = Col(buf, i, "p")]
  /\ pc' = "complete"
  /\ setup' = SetupAfter(setup)
  /\ UNCHANGED <<ulp, px, z0, z1, zsamps, nesamps, err, sampleVars, dq, rayOpVars>>
  /\ UNCHANGED nonRayVars

\* ------------------------------------------------- Ray: integrating along
\* ensure_rt_coeffs that fills in zeros, without the calculator, for a ray
\* whose field is zero everywhere
ensure_rt_coeffs_zeroShortcut(r, c) ==
  IF r.j = None
  THEN IF \A k \in 1..Len(r.B) : r.B[k] = 0
       THEN <<[r EXCEPT !.j = ConstSeq(Len(r.z), 0),
                        !.alpha = ConstSeq(Len(r.z), 0),
                        !.rho = ConstSeq(Len(r.z), 0)], 0>>
       ELSE <<[r EXCEPT !.j = ConstSeq(Len(r.z), c),
                        !.alpha = ConstSeq(Len(r.z), c),
                        !.rho = ConstSeq(Len(r.z), c)], 1>>
  ELSE <<r, 0>>

\* ensure_rt_coeffs without the "if self.j is None" test
ensure_rt_coeffs_always(r, c) ==
  <<[r EXCEPT !.j = ConstSeq(Len(r.z), c),
              !.alpha = ConstSeq(Len(r.z), c),
              !.rho = ConstSeq(Len(r.z), c)], 1>>

\* Ray.ensure_rt_coeffs, lines 1241-1246, applied to ray r with the
\* calculator returning c: <<the ray afterwards, calculator calls made>>
ensure_rt_coeffs(r, c) ==
  IF r.j = None
  THEN <<[r EXCEPT !.j = ConstSeq(Len(r.z), c),
                   !.alpha = ConstSeq(Len(r.z), c),
                   !.rho = ConstSeq(Len(r.z), c)], 1>>
  ELSE <<r, 0>>

\* Ray.integrate, lines 1272-1291: what is handed to rad_trans.integrate and
\* the shape of what is returned
integrate(r, extras, integrate_j_times_B, whole_ray) ==
  LET n == Len(r.z)
      j == IF integrate_j_times_B THEN [k \in 1..n |-> r.j[k] * r.B[k]] ELSE r.j
      given == [s |-> r.s, j |-> j, alpha |-> r.alpha, rho |-> r.rho]
  IN  IF ~extras
      THEN IF whole_ray
           THEN [kind |-> "whole_ray", shape |-> <<n, 4>>, given |-> given]
           ELSE [kind |-> "iquv", shape |-> <<4>>, given |-> given]
      ELSE [kind |-> "extras", shape |-> <<6>>, given |-> given]

EnsureRtCoeffs ==
  /\ pc = "complete"
  /\ n_ops < MaxCalls
  /\ \E c \in CoeffVals :
       LET e == ensure_rt_coeffs(ray, c)
       IN  /\ ray' = e[1]
           /\ rt_calls' = rt_calls + e[2]
           /\ cq' = IF e[2] > 0 THEN cq \cup {"ray"} ELSE cq
  /\ n_ops' = n_ops + 1
  /\ last' = [op |-> "ensure_rt_coeffs"]
  /\ setup' = SetupAfter(setup)
  /\ UNCHANGED <<ulp, px, pc, z0, z1, zsamps, nesamps, err, z, i, buf, dzs,
                 n_warn, dq>>
  /\ UNCHANGED nonRayVars

Integrate ==
  /\ pc = "complete"
  /\ n_ops < MaxCalls
  /\ \E c \in CoeffVals, extras \in BOOLEAN, jB \in BOOLEAN, whole_ray \in BOOLEAN :
       LET e == ensure_rt_coeffs(ray, c)
       IN  /\ ray' = e[1]
           /\ rt_calls' = rt_calls + e[2]
           /\ cq' = IF e[2] > 0 THEN cq \cup {"ray"} ELSE cq
           /\ last' = [op |-> "integrate", extras |-> extras,
                       integrate_j_times_B |-> jB, whole_ray |-> whole_ray,
                       ret |-> integrate(e[1], extras, jB, whole_ray)]
  /\ n_ops' = n_ops + 1
  /\ setup' = SetupAfter(setup)
  /\ UNCHANGED <<ulp, px, pc, z0, z1, zsamps, nesamps, err, z, i, buf, dzs,
                 n_warn, dq>>
  /\ UNCHANGED nonRayVars

\* ------------------------------------------------ ImageMaker.image_ray_func
\* An array is [shape, data]: data maps every 0-based index tuple to a value.
RECURSIVE Indices(_)
Indices(shape) ==
  IF shape = <<>> THEN {<<>>}
  ELSE {<<a>> \o rest : a \in 0..(shape[1] - 1), rest \in Indices(Tail(shape))}

\* what func returns for the ray of pixel (ix, iy): an array of shape v_shape
\* whose values tell the pixel and the component apart
FuncValue(ix, iy, v_shape) ==
  [shape |-> v_shape,
   data |-> [idx \in Indices(v_shape) |->
               100 * iy + 10 * ix + (IF idx = <<>> THEN 0 ELSE idx[1] + 1)]]

\* callback that traces the rays of row iyrel instead of row iyabs
callback_rel(iyrel, iyabs, v_shape) ==
  [shape |-> v_shape \o <<nx>>,
   data |-> [idx \in Indices(v_shape \o <<nx>>) |->
               FuncValue(idx[Len(idx)], iyrel, v_shape).data[SubSeq(idx, 1, Len(idx) - 1)]]]

\* callback(iyrel, fixed_args, var_arg), lines 1545-1555: the buffer of a row
callback(iyrel, iyabs, v_shape) ==
  [shape |-> v_shape \o <<nx>>,
   data |-> [idx \in Indices(v_shape \o <<nx>>) |->
               FuncValue(idx[Len(idx)], iyabs, v_shape).data[SubSeq(idx, 1, Len(idx) - 1)]]]

\* np.array(rows) for rows 0..n-1 of one shape
np_array(rs, n) ==
  [shape |-> <<n>> \o rs[0].shape,
   data |-> [idx \in Indices(<<n>> \o rs[0].shape) |-> rs[idx[1]].data[Tail(idx)]]]

\* np.moveaxis(a, 0, -2) for an array of at least two axes
moveaxis_0_m2(a) ==
  LET m == Len(a.shape)
      shape == SubSeq(a.shape, 2, m - 1) \o <<a.shape[1]>> \o <<a.shape[m]>>
  IN  [shape |-> shape,
       data |-> [idx \in Indices(shape) |->
                   a.data[<<idx[m - 1]>> \o SubSeq(idx, 1, m - 2) \o <<idx[m]>>]]]

NoArray == [shape |-> <<>>, data |-> <<>>]

\* image_ray_func(func, first_row, n_rows, parallel=True), lines 1523-1545:
\* the row indices are fixed and the workers are started
ImgCall ==
  /\ img_pc = "idle"
  /\ \E first_row \in 0..(ny - 1), n_rows \in (1..ny) \cup {0 - 1},
        v_shape \in VShapes :
       LET n == IF n_rows = 0 - 1 THEN ny ELSE n_rows   \* n_rows is None
       IN  /\ first_row + n <= ny
           /\ img_args' = [first_row |-> first_row, n_rows |-> n,
                           parallel |-> TRUE, v_shape |-> v_shape]
           /\ running' = 0..(n - 1)
           /\ rows' = [k \in 0..(n - 1) |-> NoArray]
  /\ img_pc' = "mapping"
  /\ UNCHANGED <<order, image, serial_image, nonImgVars>>

\* one row worker returns: ppmap stores what callback computed for the
\* k-th element of row_indices as the k-th result
WorkerReturns ==
  /\ img_pc = "mapping"
  /\ \E k \in running :
       /\ rows' = [rows EXCEPT
                     ![k] = callback(k, img_args.first_row + k, img_args.v_shape)]
       /\ running' = running \ {k}
       /\ order' = Append(order, k)
  /\ UNCHANGED <<img_pc, img_args, image, serial_image, nonImgVars>>

\* lines 1558-1564: ppmap has returned, the rows are stacked and transposed
ImgReturn ==
  /\ img_pc = "mapping"
  /\ running = {}
  /\ image' = moveaxis_0_m2(np_array(rows, img_args.n_rows))
  /\ img_pc' = "done"
  /\ UNCHANGED <<img_args, running, rows, order, serial_image, nonImgVars>>

\* ImageMaker._image_ray_func_serial, lines 1567-1602, for a func whose value
\* has at most one axis: a scalar value gets the shape (1,) (lines 1590-1592),
\* and data[:,iyrel,ix] = value fills plane after plane
image_ray_func_serial(first_row, n_rows, v_shape) ==
  LET vs == IF v_shape = <<>> THEN <<1>> ELSE v_shape
      shape == vs \o <<n_rows, nx>>
  IN  [shape |-> shape,
       data |-> [idx \in Indices(shape) |->
                   LET value == FuncValue(idx[3], first_row + idx[2], v_shape)
                   IN  IF v_shape = <<>> THEN value.data[<<>>]
                       ELSE value.data[<<idx[1]>>]]]

\* image_ray_func called again with the same func, first_row and n_rows and
\* with parallel=False, lines 1527-1529
ImgSerial ==
  /\ img_pc = "done"
  /\ serial_image' = image_ray_func_serial(img_args.first_row, img_args.n_rows,
                                           img_args.v_shape)
  /\ img_pc' = "compared"
  /\ UNCHANGED <<img_args, running, rows, order, image, nonImgVars>>

\* -------------------------------------------------------------- constructors
halfpi == AngRes
pi == 2 * AngRes
twopi == 4 * AngRes
Angles == (0 - twopi)..twopi

NoObj == <<>>

\* pwkit.astutil.angcen: the angle brought into [-pi, pi)
angcen(a) == ((a + pi) % twopi) - pi

\* NewO2B that also rejects loc = pi/2
NewO2B_excl(loc, cml) ==
  IF loc < 0 \/ loc >= halfpi
  THEN [obj |-> NoObj, err |-> "ValueError"]
  ELSE [obj |-> [class |-> "ObserverToBodycentric", loc |-> loc, cml |-> angcen(cml)],
        err |-> "None"]

\* ObserverToBodycentric.__init__, lines 150-158
NewO2B(loc, cml) ==
  IF loc < 0 \/ loc > halfpi
  THEN [obj |-> NoObj, err |-> "ValueError"]
  ELSE [obj |-> [class |-> "ObserverToBodycentric", loc |-> loc, cml |-> angcen(cml)],
        err |-> "None"]

\* TiltedDipoleField.__init__, lines 345-350
NewTDF(tilt, moment) ==
  IF tilt < 0 \/ tilt >= pi
  THEN [obj |-> NoObj, err |-> "ValueError"]
  ELSE [obj |-> [class |-> "TiltedDipoleField", tilt |-> tilt, moment |-> moment],
        err |-> "None"]

ConstructO2B ==
  /\ \E loc \in Angles, cml \in Angles :
       /\ ctor_call' = <<"ObserverToBodycentric", loc, cml>>
       /\ obj' = NewO2B(loc, cml).obj
       /\ ctor_err' = NewO2B(loc, cml).err
  /\ UNCHANGED nonCtorVars

ConstructTDF ==
  /\ \E tilt \in Angles, moment \in Moments :
       /\ ctor_call' = <<"TiltedDipoleField", tilt, moment>>
       /\ obj' = NewTDF(tilt, moment).obj
       /\ ctor_err' = NewTDF(tilt, moment).err
  /\ UNCHANGED nonCtorVars

\* ---------------------------------------------------- PrecomputedImageMaker
\* the datasets of a frame group, in the order iteration yields them
itemnames == <<"counts", "k", "p", "s">>
\* the number of sample slots every pixel has in the file
MaxDepth == 2
PixIdx == (0..(ny - 1)) \X (0..(nx - 1))
\* the caches: every pixel's sample count; a row holds either rays of
\* MaxDepth samples or empty rays
Caches == {[q \in PixIdx |-> IF q[1] \in full THEN MaxDepth ELSE 0] :
             full \in SUBSET (0..(ny - 1))}
\* the indices get_ray is called with
IxVals == (0 - 1)..nx
IyVals == (0 - 1)..ny

\* the value stored in slot k of dataset itemname at pixel [iy, ix]
\* (p and k in halves, so that 1.5 is 3)
Stored(itemname, iy, ix, k) == 11 * k + 3 * iy + ix - 4

\* np.clip
clip(data, lo, hi) == [k \in 1..Len(data) |-> Min(Max(data[k], lo), hi)]

\* numpy's and h5py's indexing: a negative index counts from the end
PyIdx(idx, n) == IF idx < 0 THEN idx + n ELSE idx

NoPreRay == [made |-> FALSE, ix |-> 0, iy |-> 0, attrs |-> <<>>]
NoPreErr == [type |-> "None", index |-> "None", value |-> 0, size |-> 0]

\* lines 1719-1733: the slice [iy, ix, 0:n] of one dataset, clipped
ItemData(itemname, iy, ix, n) ==
  LET data == [k \in 1..n |-> Stored(itemname, PyIdx(iy, ny), PyIdx(ix, nx), k - 1)]
  IN  IF itemname = "p" THEN clip(data, 3, 14)
      ELSE IF itemname = "k" THEN clip(data, 0, 18)
      ELSE data

\* lines 1713-1735: the Ray get_ray builds once its indices have passed
LoadRay(fg, ix, iy) ==
  LET n == fg.counts[<<PyIdx(iy, ny), PyIdx(ix, nx)>>]
      items == SelectSeq(itemnames, LAMBDA nm : nm # "counts")
  IN  [ray |-> [made |-> TRUE, ix |-> ix, iy |-> iy,
                attrs |-> [k \in 1..Len(items) |->
                             <<items[k], ItemData(items[k], iy, ix, n)>>]],
       err |-> NoPreErr,
       reads |-> <<<<fg.kind, "counts">>>> \o
                 [k \in 1..Len(items) |-> <<fg.kind, items[k]>>]]

\* get_ray without its test for negative ix
get_ray_noNegIx(fg, ix, iy) ==
  IF ix >= nx
  THEN [ray |-> NoPreRay, reads |-> <<>>,
        err |-> [type |-> "ValueError", index |-> "ix", value |-> ix, size |-> nx]]
  ELSE IF iy < 0 \/ iy >= ny
  THEN [ray |-> NoPreRay, reads |-> <<>>,
        err |-> [type |-> "ValueError", index |-> "iy", value |-> iy, size |-> ny]]
  ELSE LoadRay(fg, ix, iy)

\* PrecomputedImageMaker.get_ray, lines 1708-1735
get_ray(fg, ix, iy) ==
  IF ix < 0 \/ ix >= nx
  THEN [ray |-> NoPreRay, reads |-> <<>>,
        err |-> [type |-> "ValueError", index |-> "ix", value |-> ix, size |-> nx]]
  ELSE IF iy < 0 \/ iy >= ny
  THEN [ray |-> NoPreRay, reads |-> <<>>,
        err |-> [type |-> "ValueError", index |-> "iy", value |-> iy, size |-> ny]]
  ELSE LoadRay(fg, ix, iy)

GetRay ==
  /\ \E ix \in IxVals, iy \in IyVals :
       /\ pre_call' = <<ix, iy>>
       /\ pre_ray' = get_ray(cur_frame_group, ix, iy).ray
       /\ pre_err' = get_ray(cur_frame_group, ix, iy).err
       /\ pre_reads' = get_ray(cur_frame_group, ix, iy).reads
  /\ UNCHANGED <<cur_frame_group, nonCacheVars>>

\* ImageMaker._prep_for_multiprocessing, which does nothing
prep_for_multiprocessing_pass(fg) == fg

\* PrecomputedImageMaker._prep_for_multiprocessing, lines 1689-1705: every
\* dataset of the frame group is read whole into a dict
prep_for_multiprocessing(fg) == [fg EXCEPT !.kind = "dict"]

\* _prep_for_multiprocessing called on its own: the HDF5 group is replaced
\* by the dict of arrays loaded from it
PrepForMultiprocessing ==
  /\ cur_frame_group' = prep_for_multiprocessing(cur_frame_group)
  /\ UNCHANGED <<pre_call, pre_ray, pre_err, pre_reads, nonCacheVars>>

\* --------------------------------------------------------- IntegratedImages
UpperCase == <<"A", "B", "C", "D", "E", "F", "G", "H", "I", "J", "K", "L", "M",
               "N", "O", "P", "Q", "R", "S", "T", "U", "V", "W", "X", "Y", "Z">>
LowerCase == <<"a", "b", "c", "d", "e", "f", "g", "h", "i", "j", "k", "l", "m",
               "n", "o", "p", "q", "r", "s", "t", "u", "v", "w", "x", "y", "z">>
\* str.lower; a string is the sequence of its characters
lower(str) ==
  [k \in 1..Len(str) |->
     IF \E c \in 1..Len(UpperCase) : UpperCase[c] = str[k]
     THEN LowerCase[CHOOSE c \in 1..Len(UpperCase) : UpperCase[c] = str[k]]
     ELSE str[k]]

\* the texts frame and flux are called with
Texts == {<<"i">>, <<"I">>, <<"q">>, <<"U">>, <<"v">>,
          <<"a", "b", "s", "v">>, <<"A", "b", "s", "V">>,
          <<"l">>, <<"L">>, <<"f", "l">>, <<"F", "L">>, <<"f", "c">>, <<"f", "C">>,
          <<>>, <<"x">>, <<"p">>, <<"i", "q">>, <<"a", "b", "s">>,
          <<"f">>, <<"l", "f">>, <<"i", " ">>, <<"0">>}
\* a selector is a text, of the type str or (Python 2) unicode, or an index
Selectors ==
  [text : Texts, type : {"str", "unicode"}] \cup [index : (0 - 1)..4, type : {"int"}]
\* the files: planes I, Q, U, V of a frame of two pixels, already scaled
Datasets ==
  {<<pI, pQ, <<4, 0>>, pV>> : pI \in {<<0, 5>>, <<5, 10>>},
                              pQ \in {<<3, 0 - 3>>, <<0, 0>>},
                              pV \in {<<0 - 5, 5>>, <<0, 10>>}}

RECURSIVE nansum(_)
\* np.nansum of an array without NaNs
nansum(a) == IF a = <<>> THEN 0 ELSE Head(a) + nansum(Tail(a))
np_abs(v) == IF v < 0 THEN 0 - v ELSE v
Reverse(a) == [k \in 1..Len(a) |-> a[Len(a) + 1 - k]]
Ok(v) == [val |-> <<v>>, err |-> "None"]
Raise(e) == [val |-> <<>>, err |-> e]

\* frame, lines 155-161: i_stokes is not a str and indexes the planes
frame_index(d, sel) ==
  IF sel.type = "int" /\ PyIdx(sel.index, 4) \in 0..3
  THEN Ok(d[PyIdx(sel.index, 4) + 1])
  ELSE Raise("IndexError")

\* frame whose last line returns plane I
frame_defaultI(d, sel, yflip) ==
  LET plane(n) == d[n + 1]
      v == IF sel.type # "str" THEN frame_index(d, sel)
           ELSE Ok(plane(0))
  IN  IF yflip /\ v.err = "None" THEN Ok(Reverse(v.val[1])) ELSE v

\* IntegratedImages.frame, lines 144-199; sqrt and / rounded down to a
\* whole unit
frame(d, sel, yflip) ==
  LET plane(n) == d[n + 1]
      px_ == 1..Len(d[1])
      nm == lower(sel.text)
      i_ == [k \in px_ |-> IF plane(0)[k] = 0 THEN 1 ELSE plane(0)[k]]
      lin == [k \in px_ |-> ISqrt(plane(1)[k] * plane(1)[k] + plane(2)[k] * plane(2)[k])]
      v == IF sel.type # "str" THEN frame_index(d, sel)
           ELSE IF nm = <<"i">> THEN Ok(plane(0))
           ELSE IF nm = <<"q">> THEN Ok(plane(1))
           ELSE IF nm = <<"u">> THEN Ok(plane(2))
           ELSE IF nm = <<"v">> THEN Ok(plane(3))
           ELSE IF nm = <<"a", "b", "s", "v">>
             THEN Ok([k \in px_ |-> np_abs(plane(3)[k])])
           ELSE IF nm = <<"l">> THEN Ok(lin)
           ELSE IF nm = <<"f", "l">>
             THEN Ok([k \in px_ |-> IF plane(0)[k] = 0 THEN 0 ELSE lin[k] \div i_[k]])
           ELSE IF nm = <<"f", "c">>
             THEN Ok([k \in px_ |-> IF plane(0)[k] = 0 THEN 0
                                     ELSE plane(3)[k] \div i_[k]])
           ELSE Raise("ValueError")
  IN  IF yflip /\ v.err = "None" THEN Ok(Reverse(v.val[1])) ELSE v

\* IntegratedImages.flux, lines 202-235
flux(d, sel) ==
  LET tot(n) == nansum(d[n + 1])
      nm == lower(sel.text)
      lin == ISqrt(tot(1) * tot(1) + tot(2) * tot(2))
  IN  IF sel.type # "str"
      THEN IF frame(d, sel, FALSE).err = "None"
           THEN Ok(nansum(frame(d, sel, FALSE).val[1]))
           ELSE frame(d, sel, FALSE)
      ELSE IF nm = <<"i">> THEN Ok(tot(0))
      ELSE IF nm = <<"q">> THEN Ok(tot(1))
      ELSE IF nm = <<"u">> THEN Ok(tot(2))
      ELSE IF nm = <<"v">> THEN Ok(tot(3))
      ELSE IF nm = <<"a", "b", "s", "v">> THEN Ok(np_abs(tot(3)))
      ELSE IF nm = <<"l">> THEN Ok(lin)
      ELSE IF nm = <<"f", "l">>
        THEN Ok(IF tot(0) = 0 THEN 0 ELSE lin \div tot(0))
      ELSE IF nm = <<"f", "c">>
        THEN Ok(IF tot(0) = 0 THEN 0 ELSE tot(3) \div tot(0))
      ELSE Raise("ValueError")

Frame ==
  /\ \E sel \in Selectors, yflip \in BOOLEAN :
       /\ sel_call' = [method |-> "frame", i_stokes |-> sel, yflip |-> yflip]
       /\ sel_result' = frame(ds, sel, yflip).val
       /\ sel_err' = frame(ds, sel, yflip).err
  /\ UNCHANGED <<ds, nonSelVars>>

Flux ==
  /\ \E sel \in Selectors :
       /\ sel_call' = [method |-> "flux", i_stokes |-> sel, yflip |-> FALSE]
       /\ sel_result' = flux(ds, sel).val
       /\ sel_err' = flux(ds, sel).err
  /\ UNCHANGED <<ds, nonSelVars>>

NoCall == [method |-> "None", i_stokes |-> [index |-> 0, type |-> "int"],
           yflip |-> FALSE]
SelIdle ==
  /\ ds = <<<<0, 0>>, <<0, 0>>, <<0, 0>>, <<0, 0>>>>
  /\ sel_call = NoCall /\ sel_result = <<>> /\ sel_err = "None"

\* ---------------------------------------------------- coordinate transforms
\* Angles are whole degrees on the grid whose cosines and sines are exact
\* fifths: the multiples of 90 and those plus 37 (atan 3/4) or 53 (atan 4/3).
\* Lengths are whole ticks; a Cartesian triple is three numerators over one
\* denominator den.
Base == {0, 37, 53}
OnGrid(a) == (a % 90) \in Base
GridLats == {a \in (0 - 90)..90 : OnGrid(a)}
\* the range of np.arctan2
GridLons == {a \in (0 - 179)..180 : OnGrid(a)}
\* an angle that is not on the grid
OffGrid == 1000
\* the 1e-10 of cart_to_sph, line 39, in ticks
r_floor == 5

\* 5 * np.cos(a)
cos5(a) ==
  LET q == (a % 360) \div 90
      c == IF a % 90 = 0 THEN 5 ELSE IF a % 90 = 37 THEN 4 ELSE 3
      sn == IF a % 90 = 0 THEN 0 ELSE IF a % 90 = 37 THEN 3 ELSE 4
  IN  IF q = 0 THEN c ELSE IF q = 1 THEN 0 - sn ELSE IF q = 2 THEN 0 - c ELSE sn
\* 5 * np.sin(a)
sin5(a) ==
  LET q == (a % 360) \div 90
      c == IF a % 90 = 0 THEN 5 ELSE IF a % 90 = 37 THEN 4 ELSE 3
      sn == IF a % 90 = 0 THEN 0 ELSE IF a % 90 = 37 THEN 3 ELSE 4
  IN  IF q = 0 THEN sn ELSE IF q = 1 THEN c ELSE IF q = 2 THEN 0 - sn ELSE 0 - c

RECURSIVE Gcd(_, _)
Gcd(a, b) == IF b = 0 THEN a ELSE Gcd(b, a % b)
\* the same point written with the smallest denominator
Reduced(c) ==
  LET g == Gcd(Gcd(np_abs(c.x), np_abs(c.y)), Gcd(np_abs(c.z), c.den))
  IN  [x |-> c.x \div g, y |-> c.y \div g, z |-> c.z \div g, den |-> c.den \div g]

RECURSIVE SqrtIn(_, _, _)
SqrtIn(n, lo, hi) ==
  IF lo >= hi THEN lo
  ELSE LET mid == (lo + hi + 1) \div 2
       IN  IF mid * mid <= n THEN SqrtIn(n, mid, hi) ELSE SqrtIn(n, lo, mid - 1)
\* np.sqrt, rounded down
np_sqrt(n) == SqrtIn(n, 0, Min(n, 40000))

\* cart_to_sph, lines 19-41
cart_to_sph(c) ==
  LET rn == np_sqrt(c.x * c.x + c.y * c.y + c.z * c.z)
      rmax == Max(rn, r_floor * c.den)
      lat == IF c.z >= rmax THEN 90
             ELSE IF c.z <= 0 - rmax THEN 0 - 90
             ELSE IF \E a \in GridLats : sin5(a) * rmax = 5 * c.z
             THEN CHOOSE a \in GridLats : sin5(a) * rmax = 5 * c.z
             ELSE OffGrid
      dir(a) == /\ c.x * sin5(a) = c.y * cos5(a)
                /\ c.x * cos5(a) + c.y * sin5(a) > 0
      lon == IF c.x = 0 /\ c.y = 0 THEN 0
             ELSE IF \E a \in GridLons : dir(a)
             THEN CHOOSE a \in GridLons : dir(a)
             ELSE OffGrid
  IN  [lat |-> lat, lon |-> lon, r |-> rn \div c.den]

\* sph_to_cart, lines 44-64
sph_to_cart(t) ==
  Reduced([x |-> t.r * cos5(t.lat) * cos5(t.lon),
           y |-> t.r * cos5(t.lat) * sin5(t.lon),
           z |-> t.r * sin5(t.lat) * 5,
           den |-> 25])

\* rot2d, lines 103-114: 5 * (uprime, vprime)
rot2d(u, v, theta) ==
  <<cos5(theta) * u - sin5(theta) * v, sin5(theta) * u + cos5(theta) * v>>

\* ObserverToBodycentric._to_bc, lines 159-184
to_bc(o, c) ==
  LET tilted == rot2d(c.z, c.y, o.loc)
      spun == rot2d(tilted[1], 5 * c.x, o.cml)
  IN  Reduced([x |-> spun[1], y |-> spun[2], z |-> 5 * tilted[2],
               den |-> 25 * c.den])

\* ObserverToBodycentric.__call__, lines 187-189
o2b_call(o, c) == cart_to_sph(to_bc(o, c))

\* ObserverToBodycentric._from_bc, lines 192-201
from_bc(o, c) ==
  LET spun == rot2d(c.x, c.y, 0 - o.cml)
      tilted == rot2d(spun[1], 5 * c.z, 0 - o.loc)
  IN  Reduced([x |-> 5 * spun[2], y |-> tilted[2], z |-> tilted[1],
               den |-> 25 * c.den])

\* ObserverToBodycentric.inverse, lines 204-207
inverse(o, t) == from_bc(o, sph_to_cart(t))

\* lines 362-369 and 379-385: the rotation by tilt in the x, z plane
Tilted(c, tilt) ==
  Reduced([x |-> (0 - sin5(tilt)) * c.z + cos5(tilt) * c.x,
           y |-> 5 * c.y,
           z |-> cos5(tilt) * c.z + sin5(tilt) * c.x,
           den |-> 5 * c.den])

\* TiltedDipoleField._to_dc, lines 353-369
to_dc(f, t) == cart_to_sph(Tilted(sph_to_cart(t), f.tilt))

\* TiltedDipoleField._from_dc, lines 372-385
from_dc(f, t) == cart_to_sph(Tilted(sph_to_cart(t), 0 - f.tilt))

OnGridTriple(t) == t.lat # OffGrid /\ t.lon # OffGrid
NoTriple == [lat |-> 0, lon |-> 0, r |-> 0]
NoCart == [x |-> 0, y |-> 0, z |-> 0, den |-> 1]
NoXf == [class |-> "None", loc |-> 0, cml |-> 0, tilt |-> 0]

\* the observer frames: loc in [0, pi/2], cml as angcen leaves it
O2Bs == [class : {"ObserverToBodycentric"}, loc : {0, 37, 53, 90},
         cml : {a \in (0 - 180)..179 : OnGrid(a)}, tilt : {0}]
\* the fields: tilt in [0, pi)
TDFs == [class : {"TiltedDipoleField"}, loc : {0}, cml : {0},
         tilt : {a \in 0..179 : OnGrid(a)}]
\* the Cartesian points of whole length whose direction is on the grid
MaxCoord == 5
Points ==
  {c \in [x : (0 - MaxCoord)..MaxCoord, y : (0 - MaxCoord)..MaxCoord,
           z : (0 - MaxCoord)..MaxCoord, den : {1}] :
     /\ np_sqrt(c.x * c.x + c.y * c.y + c.z * c.z)
          * np_sqrt(c.x * c.x + c.y * c.y + c.z * c.z)
          = c.x * c.x + c.y * c.y + c.z * c.z
     /\ OnGridTriple(cart_to_sph(c))}
\* body-centric coordinates normalised to [-pi/2, pi/2], [0, 2 pi)
Triples == [lat : GridLats, lon : {a \in 0..359 : OnGrid(a)}, r : {0, 3, MaxCoord}]

O2BInverse ==
  /\ xf_pc = "start" /\ xf_obj.class = "ObserverToBodycentric"
  /\ xf_obs' = inverse(xf_obj, xf_in)
  /\ xf_pc' = "observer"
  /\ UNCHANGED <<xf_obj, xf_in, xf_dc, xf_out, nonXfVars>>

O2BCall ==
  /\ xf_pc = "observer"
  /\ xf_out' = o2b_call(xf_obj, xf_obs)
  /\ xf_pc' = "done"
  /\ UNCHANGED <<xf_obj, xf_in, xf_obs, xf_dc, nonXfVars>>

ToDc ==
  /\ xf_pc = "start" /\ xf_obj.class = "TiltedDipoleField"
  /\ xf_dc' = to_dc(xf_obj, xf_in)
  /\ xf_pc' = "dipole"
  /\ UNCHANGED <<xf_obj, xf_in, xf_obs, xf_out, nonXfVars>>

FromDc ==
  /\ xf_pc = "dipole"
  /\ xf_out' = from_dc(xf_obj, xf_dc)
  /\ xf_pc' = "done"
  /\ UNCHANGED <<xf_obj, xf_in, xf_obs, xf_dc, nonXfVars>>

XfIdle ==
  /\ xf_pc = "idle" /\ xf_obj = NoXf /\ xf_in = NoTriple
  /\ xf_obs = NoCart /\ xf_dc = NoTriple /\ xf_out = NoTriple

\* --------------------- image_ray_func of a PrecomputedImageMaker, in parallel
\* the largest n_rows the parallel computation is called with
MaxParRows == 2
\* who built or integrated a ray: the caller of image_ray_func, or the
\* callback call of a relative row 0, 1, ...
ParentCall == 0 - 1
NoCaller == 0 - 2

NoWkRay == [obj |-> NoPreRay, made_by |-> NoCaller, reads |-> <<>>]
NoWorker == [pc |-> "pending", ix |-> 0, ray |-> NoWkRay, buf |-> <<>>]

RECURSIVE SeqSum(_)
SeqSum(q) == IF q = <<>> THEN 0 ELSE Head(q) + SeqSum(Tail(q))

\* func(ray), evaluated by the call who: it integrates what the ray holds
\* (every value stands for the v_shape values of one pixel)
func(r, who) ==
  [of |-> <<r.obj.ix, r.obj.iy>>,
   sum |-> SeqSum([n \in 1..Len(r.obj.attrs) |-> SeqSum(r.obj.attrs[n][2])]),
   made_by |-> r.made_by,
   integrated_by |-> who]

\* worker_ray that takes the ray of the sample computation for pixel (0, 0)
worker_ray_reuseSample(k, fg, ix, iy, sample) ==
  IF ix = 0 /\ iy = 0 THEN sample
  ELSE [obj |-> get_ray(fg, ix, iy).ray, made_by |-> k,
        reads |-> get_ray(fg, ix, iy).reads]

\* line 1552, ray = self.get_ray(ix, iyabs) inside the callback call k
worker_ray(k, fg, ix, iy, sample) ==
  [obj |-> get_ray(fg, ix, iy).ray, made_by |-> k,
   reads |-> get_ray(fg, ix, iy).reads]

\* the reads a ray cost, as entries of the log: <<who, through what, dataset>>
LogOf(who, reads) == {<<who, reads[n][1], reads[n][2]>> : n \in 1..Len(reads)}

\* image_ray_func(func, first_row, n_rows, parallel=True), lines 1523-1543:
\* the frame is prepared, the sample ray is computed, the rows are handed out
ParCall ==
  /\ par_pc = "idle"
  /\ \E first_row \in 0..(ny - 1), n_rows \in 1..MaxParRows :
       /\ first_row + n_rows <= ny
       /\ par_args' = [first_row |-> first_row, n_rows |-> n_rows]
       /\ wk' = [k \in 0..(n_rows - 1) |-> NoWorker]
       /\ par_rows' = [k \in 0..(n_rows - 1) |-> <<>>]
  /\ LET fg == prep_for_multiprocessing(cur_frame_group)
         s == get_ray(fg, 0, 0)
     IN  /\ cur_frame_group' = fg
         /\ sample_ray' = [obj |-> s.ray, made_by |-> ParentCall, reads |-> s.reads]
         /\ par_log' = LogOf(ParentCall, s.reads)
  /\ par_pc' = "mapping"
  /\ UNCHANGED <<par_image, pre_call, pre_ray, pre_err, pre_reads, nonParVars>>

\* a worker takes a row: callback is entered, line 1549 makes its buffer
WorkerStart ==
  /\ par_pc = "mapping"
  /\ \E k \in DOMAIN wk :
       /\ wk[k].pc = "pending"
       /\ wk' = [wk EXCEPT ![k].pc = "running",
                           ![k].buf = ConstSeq(nx, Garbage)]
  /\ UNCHANGED <<par_pc, par_args, sample_ray, par_rows, par_log, par_image,
                 cacheVars, nonParVars>>

\* lines 1551-1553: one pass through the loop of a callback call
WorkerPixel ==
  /\ par_pc = "mapping"
  /\ \E k \in DOMAIN wk :
       /\ wk[k].pc = "running"
       /\ wk[k].ix < nx
       /\ LET r == worker_ray(k, cur_frame_group, wk[k].ix,
                              par_args.first_row + k, sample_ray)
          IN  /\ wk' = [wk EXCEPT ![k].ray = r,
                                  ![k].buf[wk[k].ix + 1] = func(r, k),
                                  ![k].ix = @ + 1]
              /\ par_log' = par_log \cup LogOf(k, r.reads)
  /\ UNCHANGED <<par_pc, par_args, sample_ray, par_rows, par_image,
                 cacheVars, nonParVars>>

\* line 1555: a callback call returns its buffer, ppmap keeps it
WorkerReturn ==
  /\ par_pc = "mapping"
  /\ \E k \in DOMAIN wk :
       /\ wk[k].pc = "running"
       /\ wk[k].ix = nx
       /\ wk' = [wk EXCEPT ![k].pc = "returned"]
       /\ par_rows' = [par_rows EXCEPT ![k] = wk[k].buf]
  /\ UNCHANGED <<par_pc, par_args, sample_ray, par_log, par_image,
                 cacheVars, nonParVars>>

\* lines 1557-1564: ppmap has returned, the rows are stacked
ParReturn ==
  /\ par_pc = "mapping"
  /\ \A k \in DOMAIN wk : wk[k].pc = "returned"
  /\ par_image' = [q \in (0..(par_args.n_rows - 1)) \X (0..(nx - 1)) |->
                     par_rows[q[1]][q[2] + 1]]
  /\ par_pc' = "done"
  /\ UNCHANGED <<par_args, sample_ray, wk, par_rows, par_log,
                 cacheVars, nonParVars>>

ParIdle ==
  /\ par_pc = "idle" /\ par_args = <<>> /\ sample_ray = NoWkRay /\ wk = <<>>
  /\ par_rows = <<>> /\ par_log = {} /\ par_image = <<>>

\* ------------------------------------------------------ integrate.seed_cli
\* the inputs of seed_cli: the rows of the frames of the assembled file, the
\* -g option, the number of frames of the file and of frequencies
MaxSeedRows == 5
MaxGroups == 3
MaxFrames == 2
MaxFreqs == 2

\* lines 502-504: n more groups of rest_height rows are appended
RECURSIVE AppendGroups(_, _, _)
AppendGroups(g, rest_height, n) ==
  IF n <= 0 THEN g
  ELSE AppendGroups(
         [start_rows |-> Append(g.start_rows,
                                g.start_rows[Len(g.start_rows)] + rest_height),
          row_heights |-> Append(g.row_heights, rest_height)],
         rest_height, n - 1)

\* row_groups that gives the first group the height of the others
row_groups_equal(n_rows, n_row_groups) ==
  IF n_row_groups = 1
  THEN [start_rows |-> <<0>>, row_heights |-> <<n_rows>>]
  ELSE LET rest_height == n_rows \div n_row_groups
           first_height == rest_height
       IN  AppendGroups([start_rows |-> <<0, first_height>>,
                         row_heights |-> <<first_height, rest_height>>],
                        rest_height, n_row_groups - 2)

\* seed_cli, lines 491-504: start_rows and row_heights
row_groups(n_rows, n_row_groups) ==
  IF n_row_groups = 1
  THEN [start_rows |-> <<0>>, row_heights |-> <<n_rows>>]
  ELSE LET rest_height == n_rows \div n_row_groups
           first_height == n_rows - (n_row_groups - 1) * rest_height
       IN  AppendGroups([start_rows |-> <<0, first_height>>,
                         row_heights |-> <<first_height, rest_height>>],
                        rest_height, n_row_groups - 2)

NoSeed == [n_row_groups |-> 0, shape0 |-> 0, n_rows |-> 0, n_frames |-> 0,
           n_freq |-> 0, start_rows |-> <<>>, row_heights |-> <<>>,
           n_tasks |-> 0, iframe |-> 0, ifreq |-> 0, icg |-> 0]

\* seed_cli, lines 463-507: the options are parsed, the assembled file is
\* read, the groups are computed and the number of tasks is printed
SeedCall ==
  /\ seed_pc = "idle"
  /\ \E rows0 \in 0..MaxSeedRows, g \in 1..MaxGroups,
        nf \in 1..MaxFrames, nq \in 1..MaxFreqs :
       LET rg == row_groups(rows0, g)
       IN  seed' = [n_row_groups |-> g, shape0 |-> rows0, n_rows |-> rows0,
                    n_frames |-> nf, n_freq |-> nq,
                    start_rows |-> rg.start_rows, row_heights |-> rg.row_heights,
                    n_tasks |-> nf * nq * g,
                    iframe |-> 0, ifreq |-> 0, icg |-> 0]
  /\ tasks' = <<>>
  /\ seed_pc' = "emitting"
  /\ UNCHANGED nonSeedVars

\* lines 509-516: one pass through the body of the innermost loop
SeedEmit ==
  /\ seed_pc = "emitting"
  /\ seed.iframe < seed.n_frames
  /\ LET start_row == seed.start_rows[seed.icg + 1]
         n_rows == seed.row_heights[seed.icg + 1]
         lastcg == seed.icg + 1 = seed.n_row_groups
         lastfreq == seed.ifreq + 1 = seed.n_freq
     IN  /\ tasks' = Append(tasks, [jobid |-> <<seed.iframe, seed.ifreq, seed.icg>>,
                                    frame_name |-> seed.iframe,
                                    freq |-> seed.ifreq,
                                    start_row |-> start_row,
                                    n_rows |-> n_rows])
         /\ seed' = [seed EXCEPT
                       !.n_rows = n_rows,
                       !.icg = IF lastcg THEN 0 ELSE @ + 1,
                       !.ifreq = IF ~lastcg THEN @ ELSE IF lastfreq THEN 0 ELSE @ + 1,
                       !.iframe = IF lastcg /\ lastfreq THEN @ + 1 ELSE @]
  /\ UNCHANGED <<seed_pc, nonSeedVars>>

\* the loops have ended: seed_cli returns
SeedReturn ==
  /\ seed_pc = "emitting"
  /\ seed.iframe = seed.n_frames
  /\ seed_pc' = "done"
  /\ UNCHANGED <<seed, tasks, nonSeedVars>>

SeedIdle == seed_pc = "idle" /\ seed = NoSeed /\ tasks = <<>>

\* -------------------------------------------------- integrate.assemble_cli
\* the result files: the largest start row, the largest height, and how many
\* files the glob matches
MaxStart == 2
MaxHeight == 2
MaxFiles == 3
FrameNames == {"frame0000", "frame0001"}
\* the planes of an image (Stokes parameters)
n_vals == 4

\* A result file is known by the pieces of its base name between '_', as
\* _integrate_cli writes it (line 458): frame name, frequency code, start
\* row, number of rows.
FileNames == {<<fr, "nu1p000", s, h>> :
                fr \in FrameNames, s \in 0..MaxStart, h \in 1..MaxHeight}
\* the array saved in a file: row r of its rows (every row stands for the
\* n_vals x n_cols values of that image row)
FileData(bits) ==
  [r \in 1..bits[Len(bits)] |-> <<bits[1], bits[Len(bits) - 1], bits[Len(bits)], r>>]
\* a row of np.zeros
ZeroRow == <<>>

\* what glob.glob can return: distinct files in any order
Globs == UNION {{q \in [1..n -> FileNames] :
                   \A a, b \in 1..n : a # b => q[a] # q[b]} : n \in 1..MaxFiles}

\* lines 569-573: the image id, start row and row count in a file's name
image_id(bits) == SubSeq(bits, 1, Len(bits) - 2)
name_start_row(bits) == bits[Len(bits) - 1]
name_n_rows(bits) == bits[Len(bits)]

\* lines 563-566
NoAsm == [n_rows |-> 0, n_cols |-> None, n_vals |-> None, max_start_row |-> 0 - 1,
          info_by_image |-> <<>>, next |-> 1]

\* scan that takes the row count from whichever file comes last
scan_lastWins(a, bits) ==
  LET id == image_id(bits)
      start_row == name_start_row(bits)
      this_n_rows == name_n_rows(bits)
      sized == [a EXCEPT !.n_vals = n_vals, !.n_cols = nx,
                         !.n_rows = start_row + this_n_rows,
                         !.max_start_row = start_row]
      old == IF id \in DOMAIN a.info_by_image THEN a.info_by_image[id] ELSE <<>>
  IN  [sized EXCEPT
         !.info_by_image = [x \in DOMAIN a.info_by_image \cup {id} |->
                              IF x = id THEN Append(old, <<start_row, bits>>)
                              ELSE a.info_by_image[x]],
         !.next = @ + 1]

\* lines 568-583: the body of the first loop for one file
scan(a, bits) ==
  LET id == image_id(bits)
      start_row == name_start_row(bits)
      this_n_rows == name_n_rows(bits)
      sized == IF start_row > a.max_start_row
               THEN [a EXCEPT !.n_vals = n_vals, !.n_cols = nx,
                              !.n_rows = Max(a.n_rows, start_row + this_n_rows),
                              !.max_start_row = start_row]
               ELSE a
      old == IF id \in DOMAIN a.info_by_image THEN a.info_by_image[id] ELSE <<>>
  IN  [sized EXCEPT
         !.info_by_image = [x \in DOMAIN a.info_by_image \cup {id} |->
                              IF x = id THEN Append(old, <<start_row, bits>>)
                              ELSE a.info_by_image[x]],
         !.next = @ + 1]

RECURSIVE scan_all(_, _)
scan_all(a, q) == IF q = <<>> THEN a ELSE scan_all(scan(a, Head(q)), Tail(q))

\* line 594, data[:,start_row:start_row+height] = i_data: the slice is cut
\* off at the end of data; the rows are copied if the slice has as many
\* rows as i_data, one row is repeated over the slice, and anything else
\* is numpy's ValueError
set_rows(d, start_row, i_data) ==
  LET n == Len(d.data)
      lo == Min(start_row, n)
      hi == Min(start_row + Len(i_data), n)
  IN  IF ~d.ok THEN d
      ELSE IF hi - lo = Len(i_data)
      THEN [ok |-> TRUE,
            data |-> [k \in 1..n |-> IF lo < k /\ k <= hi THEN i_data[k - lo]
                                     ELSE d.data[k]]]
      ELSE IF Len(i_data) = 1
      THEN [ok |-> TRUE,
            data |-> [k \in 1..n |-> IF lo < k /\ k <= hi THEN i_data[1]
                                     ELSE d.data[k]]]
      ELSE [ok |-> FALSE, data |-> d.data]

\* lines 589-594: the files of one image are copied into data in turn
RECURSIVE fill(_, _)
fill(d, info) ==
  IF info = <<>> THEN d
  ELSE fill(set_rows(d, Head(info)[1], FileData(Head(info)[2])), Tail(info))

\* lines 585-596: the datasets written, one for every image
write(a) ==
  LET made == [id \in DOMAIN a.info_by_image |->
                 fill([ok |-> TRUE, data |-> ConstSeq(a.n_rows, ZeroRow)],
                      a.info_by_image[id])]
  IN  IF \A id \in DOMAIN made : made[id].ok
      THEN [kind |-> "ok",
            ds |-> [id \in DOMAIN made |->
                      [shape |-> <<a.n_vals, a.n_rows, a.n_cols>>,
                       rows |-> made[id].data]]]
      ELSE [kind |-> "ValueError", ds |-> <<>>]

NoOut == [kind |-> "None", ds |-> <<>>]

\* lines 554-568: the options are parsed and the glob is expanded
AsmGlob ==
  /\ asm_pc = "idle"
  /\ files' \in Globs
  /\ asm' = NoAsm
  /\ asm_pc' = "scanning"
  /\ UNCHANGED <<asm_out, nonAsmVars>>

\* lines 568-583: the next file of the glob
AsmScan ==
  /\ asm_pc = "scanning"
  /\ asm.next <= Len(files)
  /\ asm' = scan(asm, files[asm.next])
  /\ UNCHANGED <<asm_pc, files, asm_out, nonAsmVars>>

\* lines 585-596: the output file is written
AsmWrite ==
  /\ asm_pc = "scanning"
  /\ asm.next > Len(files)
  /\ asm_out' = write(asm)
  /\ asm_pc' = "done"
  /\ UNCHANGED <<files, asm, nonAsmVars>>

AsmIdle == asm_pc = "idle" /\ files = <<>> /\ asm = NoAsm /\ asm_out = NoOut

\* the image maker, the constructors and the cache at rest
CacheIdle ==
  /\ cur_frame_group = [kind |-> "h5", counts |-> [q \in PixIdx |-> 0]]
  /\ pre_call = <<>> /\ pre_ray = NoPreRay /\ pre_err = NoPreErr
  /\ pre_reads = <<>>
ImgIdle ==
  /\ img_pc = "idle" /\ img_args = <<>> /\ running = {} /\ rows = <<>>
  /\ order = <<>> /\ image = <<>> /\ serial_image = <<>>
CtorIdle ==
  /\ ctor_call = <<>> /\ obj = <<>> /\ ctor_err = "None"

\* ---------------------------------------------------------- specification
Init ==
  /\ setup \in [o2b : {NewO2B(0, 0).obj}, bfield : {NewTDF(0, 3000).obj},
                 distrib : Profiles, ray_tracer : Tracers,
                 synch_calc : {"NeuroSynchrotronCalculator"},
                 rad_trans : {"GrtransRTIntegrator"},
                 radius : Radii, nu : {1}]
  /\ px \in Pixels
  /\ pc = "start"
  /\ z0 = 0 /\ z1 = 0
  /\ zsamps = <<>> /\ nesamps = <<>>
  /\ err = NoErr
  /\ z = 0 /\ i = 0 /\ buf = <<>> /\ dzs = <<>> /\ n_warn = 0
  /\ ulp = 1
  /\ dq = {} /\ cq = {}
  /\ ray = NoRay
  /\ rt_calls = 0 /\ n_ops = 0 /\ last = [op |-> "None"]
  /\ ImgIdle
  /\ CtorIdle
  /\ CacheIdle
  /\ SelIdle
  /\ XfIdle
  /\ ParIdle /\ SeedIdle /\ AsmIdle

Next ==
  \/ Begin
  \/ Search
  \/ RefineStart
  \/ RefineEnd
  \/ SampleFixed
  \/ SampleInit
  \/ SampleStep
  \/ SampleFinish
  \/ EnsureRtCoeffs
  \/ Integrate

Spec == Init /\ [][Next]_vars

\* _sample_ray called with a z0 and a z1 that are a few doubles apart: the
\* spacing of the doubles is one tick, and z1 - z0 is 1 to MaxGap ticks
MaxGap == 4
InitNarrow ==
  /\ setup = [o2b |-> NewO2B(0, 0).obj, bfield |-> NewTDF(0, 3000).obj,
              distrib |-> [k \in 1..NSeg |-> 2], ray_tracer |-> "Formal",
              synch_calc |-> "NeuroSynchrotronCalculator",
              rad_trans |-> "GrtransRTIntegrator",
              radius |-> 2, nu |-> 1]
  /\ px = <<0, 101>>
  /\ pc = "sampling"
  /\ z0 = 0 /\ z1 \in 1..MaxGap
  /\ zsamps = <<>> /\ nesamps = <<>>
  /\ err = NoErr
  /\ z = 0 /\ i = 0 /\ buf = <<>> /\ dzs = <<>> /\ n_warn = 0
  /\ ulp = SDen
  /\ dq = {} /\ cq = {}
  /\ ray = NoRay
  /\ rt_calls = 0 /\ n_ops = 0 /\ last = [op |-> "None"]
  /\ ImgIdle /\ CtorIdle /\ CacheIdle /\ SelIdle /\ XfIdle
  /\ ParIdle /\ SeedIdle /\ AsmIdle
NextNarrow ==
  \/ SampleInit
  \/ SampleStep
  \/ SampleFinish
SpecNarrow == InitNarrow /\ [][NextNarrow]_vars

\* no ray is being built
RayIdle ==
  /\ setup = [o2b |-> NewO2B(0, 0).obj, bfield |-> NewTDF(0, 3000).obj,
              distrib |-> [k \in 1..NSeg |-> 0], ray_tracer |-> "Basic",
              synch_calc |-> "NeuroSynchrotronCalculator",
              rad_trans |-> "GrtransRTIntegrator",
              radius |-> 2, nu |-> 1]
  /\ px = <<0, 0>>
  /\ pc = "idle"
  /\ z0 = 0 /\ z1 = 0
  /\ zsamps = <<>> /\ nesamps = <<>>
  /\ err = NoErr
  /\ z = 0 /\ i = 0 /\ buf = <<>> /\ dzs = <<>> /\ n_warn = 0
  /\ ulp = 1
  /\ dq = {} /\ cq = {}
  /\ ray = NoRay
  /\ rt_calls = 0 /\ n_ops = 0 /\ last = [op |-> "None"]

\* a parallel image computation
InitImage ==
  /\ RayIdle /\ ImgIdle /\ CtorIdle /\ CacheIdle /\ SelIdle /\ XfIdle
  /\ ParIdle /\ SeedIdle /\ AsmIdle
NextImage ==
  \/ ImgCall
  \/ WorkerReturns
  \/ ImgReturn
  \/ ImgSerial
SpecImage == InitImage /\ [][NextImage]_vars

\* construction of the frame and of the field
InitCtor ==
  /\ RayIdle /\ ImgIdle /\ CtorIdle /\ CacheIdle /\ SelIdle /\ XfIdle
  /\ ParIdle /\ SeedIdle /\ AsmIdle
NextCtor ==
  \/ ConstructO2B
  \/ ConstructTDF
SpecCtor == InitCtor /\ [][NextCtor]_vars

\* rays read back from a precomputed frame
InitCache ==
  /\ RayIdle /\ ImgIdle /\ CtorIdle /\ SelIdle /\ XfIdle
  /\ ParIdle /\ SeedIdle /\ AsmIdle
  /\ cur_frame_group \in [kind : {"h5"}, counts : Caches]
  /\ pre_call = <<>> /\ pre_ray = NoPreRay /\ pre_err = NoPreErr
  /\ pre_reads = <<>>
NextCache ==
  \/ GetRay
  \/ PrepForMultiprocessing
SpecCache == InitCache /\ [][NextCache]_vars

\* frames and fluxes read from an IntegratedImages file
InitSel ==
  /\ RayIdle /\ ImgIdle /\ CtorIdle /\ CacheIdle /\ XfIdle
  /\ ParIdle /\ SeedIdle /\ AsmIdle
  /\ ds \in Datasets
  /\ sel_call = NoCall /\ sel_result = <<>> /\ sel_err = "None"
NextSel ==
  \/ Frame
  \/ Flux
SpecSel == InitSel /\ [][NextSel]_vars

\* round trips through the coordinate transforms: a triple that cart_to_sph
\* returned goes through an observer frame, a normalised triple through a
\* field whose dipole-centric coordinates are on the grid
InitXf ==
  /\ RayIdle /\ ImgIdle /\ CtorIdle /\ CacheIdle /\ SelIdle
  /\ ParIdle /\ SeedIdle /\ AsmIdle
  /\ xf_pc = "start"
  /\ \/ xf_obj \in O2Bs /\ xf_in \in {cart_to_sph(c) : c \in Points}
     \/ /\ xf_obj \in TDFs /\ xf_in \in Triples
        /\ OnGridTriple(to_dc(xf_obj, xf_in))
  /\ xf_obs = NoCart /\ xf_dc = NoTriple /\ xf_out = NoTriple
NextXf ==
  \/ O2BInverse
  \/ O2BCall
  \/ ToDc
  \/ FromDc
SpecXf == InitXf /\ [][NextXf]_vars

\* a parallel image computation from a precomputed frame
InitPar ==
  /\ RayIdle /\ ImgIdle /\ CtorIdle /\ SelIdle /\ XfIdle
  /\ ParIdle /\ SeedIdle /\ AsmIdle
  /\ cur_frame_group \in [kind : {"h5"}, counts : Caches]
  /\ pre_call = <<>> /\ pre_ray = NoPreRay /\ pre_err = NoPreErr
  /\ pre_reads = <<>>
NextPar ==
  \/ ParCall
  \/ WorkerStart
  \/ WorkerPixel
  \/ WorkerReturn
  \/ ParReturn
SpecPar == InitPar /\ [][NextPar]_vars

\* the tasks of a cluster run are seeded
InitSeed ==
  /\ RayIdle /\ ImgIdle /\ CtorIdle /\ CacheIdle /\ SelIdle /\ XfIdle
  /\ ParIdle /\ SeedIdle /\ AsmIdle
NextSeed ==
  \/ SeedCall
  \/ SeedEmit
  \/ SeedReturn
SpecSeed == InitSeed /\ [][NextSeed]_vars

\* the results of a cluster run are assembled
InitAsm ==
  /\ RayIdle /\ ImgIdle /\ CtorIdle /\ CacheIdle /\ SelIdle /\ XfIdle
  /\ ParIdle /\ SeedIdle /\ AsmIdle
NextAsm ==
  \/ AsmGlob
  \/ AsmScan
  \/ AsmWrite
SpecAsm == InitAsm /\ [][NextAsm]_vars

\* ------------------------------------------------------------ properties
AnyAbove == \E k \in 1..Len(nesamps) : nesamps[k] > ne0_cutoff
\* create_ray has returned the empty ray
EmptyDone == pc = "complete" /\ ~AnyAbove
\* FormalRayTracer._sample_ray has returned
FormalDone == pc = "complete" /\ AnyAbove /\ setup.ray_tracer = "Formal"
AllZero(a) == a # None /\ \A k \in 1..Len(a) : a[k] = 0

\* C1: every step dz that FormalRayTracer._sample_ray adds to z lies between
\* min_step_size and max_step_size, and so does the distance between two
\* consecutive samples of the ray it returns.
C1_StepWithinBounds ==
  /\ \A k \in 1..Len(dzs) :
        min_step_size <= dzs[k] /\ dzs[k] <= max_step_size
  /\ FormalDone =>
        \A k \in 1..(Len(ray.z) - 1) :
          /\ min_step_size <= ray.z[k + 1] - ray.z[k]
          /\ ray.z[k + 1] - ray.z[k] <= max_step_size

\* C1 witness: a finished adaptive ray in which one step was set by the
\* stiffness criterion, strictly between the two limits.
C1_Witness ==
  /\ FormalDone
  /\ \E k \in 1..Len(dzs) : min_step_size < dzs[k] /\ dzs[k] < max_step_size
  /\ \E k \in 1..Len(dzs) : dzs[k] = max_step_size
  /\ \E k \in 1..Len(dzs) : dzs[k] = min_step_size

\* C2: the last sample of every ray FormalRayTracer._sample_ray returns is at
\* z1 exactly.
C2_LastSampleAtZ1 ==
  FormalDone => ray.z[Len(ray.z)] = z1 * SDen

\* C3: with no coarse sample above ne0_cutoff create_ray raises nothing and
\* returns a ray of exactly two samples, at z0 and z1, whose theta, B, psi
\* and distribution parameters are all zero.
C3_EmptyRayZeroed ==
  (pc \notin {"start", "searching"} /\ ~AnyAbove) =>
    /\ pc = "complete"
    /\ err = NoErr
    /\ ray # NoRay
    /\ ray.zden = 1
    /\ ray.z = <<EntryZ(px[1], px[2]), way_front_z>>
    /\ AllZero(ray.theta) /\ AllZero(ray.B) /\ AllZero(ray.psi)
    /\ \A k \in 1..Len(parameter_names) : AllZero(ray[parameter_names[k]])
    /\ Len(ray.theta) = 2 /\ Len(ray.B) = 2 /\ Len(ray.psi) = 2

\* C3 witness: an empty ray on a line of sight that does hold particles
\* (between the coarse samples).
C3_Witness ==
  /\ EmptyDone
  /\ n_ops = 0
  /\ \E t \in z0..z1 : z_to_ne(t) > ne0_cutoff

C5_RootFailureCarriesBounds ==
  (pc = "failed" /\ err.type = "RuntimeError") =>
    /\ ray = NoRay
    /\ buf = <<>> /\ <<"sampling", FALSE>> \notin dq
    /\ \/ /\ nesamps[1] < ne0_cutoff
          /\ err.args = <<EntryZ(px[1], px[2]), SetMin(Above)>>
       \/ err.args = <<way_front_z, SetMax(Above)>>

\* C6: the path length s of every ray create_ray returns is zero at the
\* first sample and strictly increasing.
C6_PathLengthIncreasing ==
  pc = "complete" =>
    /\ ray.s[1] = 0
    /\ \A k \in 1..(Len(ray.s) - 1) : ray.s[k] < ray.s[k + 1]
    /\ Len(ray.s) = Len(ray.z)

\* C6 witness: a finished adaptive ray whose buffer had to grow.
C6_Witness ==
  /\ FormalDone
  /\ Len(ray.s) > min_n_pts
  /\ Len(buf) > min_n_pts

\* C7: over any sequence of ensure_rt_coeffs and integrate calls on a ray
\* the calculator is called at most once, and once a call has been made the
\* stored j, alpha and rho never change.
C7_CoeffsMemoized ==
  /\ [](rt_calls <= 1)
  /\ [][(pc = "complete" /\ n_ops >= 1) =>
          /\ ray.j' = ray.j /\ ray.alpha' = ray.alpha /\ ray.rho' = ray.rho
          /\ rt_calls' = rt_calls]_vars

\* C7 witness: two calls were made on a ray that was built without
\* coefficients, and the calculator ran once.
C7_Witness ==
  /\ pc = "complete"
  /\ n_ops = 2
  /\ rt_calls = 1
  /\ setup.ray_tracer = "Basic" /\ AnyAbove

\* C8: an integrate call that asks for both extras and whole_ray is not
\* answered like a call that asked for one of them.
C8_BothModesRejected ==
  (last.op = "integrate" /\ last.extras /\ last.whole_ray) =>
    last.ret.kind \notin {"extras", "whole_ray", "iquv"}

\* C9: when image_ray_func runs rows in parallel, row k of the returned image
\* is what func gave for the rays of row first_row + k, whatever order the
\* workers returned in.
C9_RowsInIndexOrder ==
  img_pc = "done" =>
    LET vs == img_args.v_shape
    IN  /\ image.shape = vs \o <<img_args.n_rows, nx>>
        /\ \A k \in 0..(img_args.n_rows - 1), ix \in 0..(nx - 1), v \in Indices(vs) :
              image.data[v \o <<k, ix>>]
                = FuncValue(ix, img_args.first_row + k, vs).data[v]

\* C9 witness: an image whose rows did not finish in index order and do not
\* start at row 0.
C9_Witness ==
  /\ img_pc = "done"
  /\ img_args.first_row > 0
  /\ img_args.n_rows > 1
  /\ order[1] > order[2]

\* C10: the constructors raise for out-of-range arguments and build nothing;
\* in range they keep the argument as given: loc in [0, pi/2] for
\* ObserverToBodycentric, tilt in [0, pi) for TiltedDipoleField.
C10_ConstructorsReject ==
  /\ (ctor_call # <<>> /\ ctor_call[1] = "ObserverToBodycentric") =>
        IF ctor_call[2] < 0 \/ ctor_call[2] > halfpi
        THEN obj = NoObj /\ ctor_err # "None"
        ELSE obj # NoObj /\ ctor_err = "None" /\ obj.loc = ctor_call[2]
  /\ (ctor_call # <<>> /\ ctor_call[1] = "TiltedDipoleField") =>
        IF ctor_call[2] < 0 \/ ctor_call[2] >= pi
        THEN obj = NoObj /\ ctor_err # "None"
        ELSE obj # NoObj /\ ctor_err = "None" /\ obj.tilt = ctor_call[2]

\* C10 witness: the frame was built at the upper end of its range, loc = pi/2.
C10_Witness ==
  /\ ctor_call # <<>>
  /\ ctor_call[1] = "ObserverToBodycentric"
  /\ ctor_call[2] = halfpi
  /\ obj # NoObj
\* C11: whenever PrecomputedImageMaker.get_ray is called with ix < 0,
\* ix >= nx, iy < 0 or iy >= ny it raises a ValueError that names an
\* offending index, its value and the valid size, it has read nothing from
\* the cache and it has produced no Ray.
C11_BadIndexRejected ==
  pre_call # <<>> =>
    LET ix == pre_call[1]
        iy == pre_call[2]
        badx == ix < 0 \/ ix >= nx
        bady == iy < 0 \/ iy >= ny
    IN  (badx \/ bady) =>
          /\ pre_err.type = "ValueError"
          /\ \/ badx /\ pre_err.index = "ix" /\ pre_err.value = ix
                     /\ pre_err.size = nx
             \/ bady /\ pre_err.index = "iy" /\ pre_err.value = iy
                     /\ pre_err.size = ny
          /\ pre_reads = <<>>
          /\ pre_ray = NoPreRay
\* get_ray has rejected a negative ix on a cache that holds samples
C11_Witness ==
  /\ pre_call # <<>> /\ pre_call[1] < 0
  /\ pre_call[2] \in 0..(ny - 1)
  /\ cur_frame_group.counts[<<pre_call[2], nx - 1>>] > 0
  /\ pre_err.type = "ValueError" /\ pre_ray = NoPreRay

\* the eight selector names
StokesNames == {<<"i">>, <<"q">>, <<"u">>, <<"v">>, <<"a", "b", "s", "v">>,
                <<"l">>, <<"f", "l">>, <<"f", "c">>}
\* the two texts are the same but for the case of their letters
SameFolded(a, b) ==
  /\ Len(a) = Len(b)
  /\ \A k \in 1..Len(a) :
       \/ a[k] = b[k]
       \/ \E c \in 1..Len(UpperCase) :
            {a[k], b[k]} = {UpperCase[c], LowerCase[c]}

\* C12: whenever frame or flux is called with a text that is, whatever the
\* case of its letters, none of i, q, u, v, absv, l, fl, fc, the call raises
\* an exception and returns no plane and no flux.
C12_UnknownSelectorRaises ==
  (/\ sel_call.method \in {"frame", "flux"}
   /\ sel_call.i_stokes.type \in {"str", "unicode"}
   /\ \A nm \in StokesNames : ~SameFolded(sel_call.i_stokes.text, nm))
  => (sel_err # "None" /\ sel_result = <<>>)
\* flux has rejected the str 'abs' on a file whose I plane is not zero
C12_Witness ==
  /\ sel_call.method = "flux"
  /\ sel_call.i_stokes = [text |-> <<"a", "b", "s">>, type |-> "str"]
  /\ nansum(ds[1]) > 0
  /\ sel_err = "ValueError"

\* C13: no step of ray construction, of the coefficient computation or of
\* the integration changes a field of the Setup (o2b, bfield, distrib,
\* ray_tracer, synch_calc, rad_trans, radius, nu).
C13_SetupNeverWritten == [][setup' = setup]_vars
\* a ray of the fixed-count tracer has been built, has had its coefficients
\* computed and has been integrated
C13_Witness ==
  /\ pc = "complete" /\ AnyAbove /\ setup.ray_tracer = "Basic"
  /\ rt_calls = 1 /\ last.op = "integrate"
  /\ setup.nu = 1

\* C14: for every observer frame and every (lat, lon, r) that cart_to_sph
\* returned, inverse followed by the forward transform gives back the same
\* (lat, lon, r).
C14_ObserverRoundTrip ==
  (xf_pc = "done" /\ xf_obj.class = "ObserverToBodycentric") => xf_out = xf_in

\* C15: for every tilt in [0, pi) and every (lat, lon, r) with lat in
\* [-pi/2, pi/2] and lon in [0, 2 pi), _from_dc applied to the result of
\* _to_dc gives back the same (lat, lon, r).
C15_DipoleRoundTrip ==
  (xf_pc = "done" /\ xf_obj.class = "TiltedDipoleField") => xf_out = xf_in

\* C16: every iteration of the adaptive loop of FormalRayTracer._sample_ray
\* (z0 < z1) leaves z strictly greater than it found it, whatever the
\* coefficients, so that z passes z1 and the loop ends.
C16_ZStrictlyIncreases ==
  [][(pc = "loop" /\ pc' = "loop" /\ i' = i + 1) => z' > z]_vars

\* C17: every ray that FormalRayTracer._sample_ray returns (z0 < z1) has at
\* least min_n_pts samples, also when the coefficients are zero everywhere
\* and the stiffness criterion puts no limit on the step.
C17_AtLeastMinNPts ==
  FormalDone => (z0 < z1 /\ Len(ray.z) >= min_n_pts /\ i >= min_n_pts)
\* a ray through a medium whose coefficients are zero at every sample: only
\* max_step_size has limited the steps
C17_Witness ==
  /\ FormalDone
  /\ AllZero(ray.alpha) /\ AllZero(ray.rho)
  /\ \A k \in 1..(Len(dzs) - 2) : dzs[k] = max_step_size
  /\ Len(ray.z) = min_n_pts + 1

\* create_ray has left its search with bounds for a non-empty ray
BoundsFinal == pc \in {"sampling", "loop", "complete"} /\ AnyAbove

\* C18: when create_ray has finished its search on a non-empty ray, the
\* bounds satisfy  original z0 <= z0 <= first coarse sample above the cutoff
\* <= last coarse sample above the cutoff <= z1 <= original z1, and z0 (z1)
\* differs from the original only if the first (last) coarse sample is below
\* the cutoff.
C18_BoundsBracketAbove ==
  BoundsFinal =>
    /\ EntryZ(px[1], px[2]) <= z0
    /\ z0 <= SetMin(Above)
    /\ SetMin(Above) <= SetMax(Above)
    /\ SetMax(Above) <= z1
    /\ z1 <= way_front_z
    /\ (z0 # EntryZ(px[1], px[2]) => nesamps[1] < ne0_cutoff)
    /\ (z1 # way_front_z => nesamps[Len(nesamps)] < ne0_cutoff)
\* both bounds have been moved by a root-find, strictly inside the original
\* bounds and strictly outside the coarse samples above the cutoff
C18_Witness ==
  /\ pc = "sampling" /\ AnyAbove
  /\ EntryZ(px[1], px[2]) < z0 /\ z0 < SetMin(Above)
  /\ SetMax(Above) < z1 /\ z1 < way_front_z

\* C19: the electron density at the first sample of every non-empty ray
\* that create_ray returns is strictly greater than ne0_cutoff.
C19_LaunchDensityAboveCutoff ==
  (pc = "complete" /\ AnyAbove) => ray.n_e[1] > ne0_cutoff

\* the phases of create_ray
Searching == pc \in {"searching", "refine_start", "refine_end"}
Sampling == pc \in {"sampling", "loop"}
\* the moves of create_ray from one position to the next
PhaseOrder ==
  {<<"start", "searching">>,
   <<"searching", "refine_start">>, <<"refine_start", "refine_end">>,
   <<"searching", "complete">>,
   <<"refine_start", "failed">>, <<"refine_end", "failed">>,
   <<"refine_end", "sampling">>, <<"sampling", "loop">>,
   <<"sampling", "complete">>, <<"loop", "complete">>}

\* C20: create_ray moves from Searching to Sampling to Complete and never
\* back; while it is Searching every query of the distribution is
\* density-only and the synchrotron calculator has not been called; the full
\* query and the calculator are used from Sampling on; the empty ray goes
\* from Searching straight to Complete, without any sampling.
C20_PhasesInOrder ==
  /\ [][pc' = pc \/ <<pc, pc'>> \in PhaseOrder]_vars
  /\ [][(Searching /\ pc' = "complete") => ~AnyAbove']_vars
  /\ []((pc = "start" \/ Searching \/ pc = "failed") =>
          (cq = {} /\ \A q \in dq : q[2] = TRUE))
  /\ [](\A q \in dq : q[2] = FALSE <=> q[1] = "sampling")
  /\ [](Sampling => AnyAbove)
  /\ [](EmptyDone =>
          (i = 0 /\ dzs = <<>> /\ "sampling" \notin cq
           /\ \A q \in dq : q[2] = TRUE))
\* an adaptive ray is complete: the search and both refinements queried the
\* density only, the sampling made the full query and called the calculator
C20_Witness ==
  /\ FormalDone
  /\ {<<"searching", TRUE>>, <<"refine_start", TRUE>>, <<"refine_end", TRUE>>,
      <<"sampling", FALSE>>} \subseteq dq
  /\ "sampling" \in cq

\* C21: create_ray starts its search, for a pixel with x^2 + y^2 <= 1 (the
\* limb included), at the z >= 0 with x^2 + y^2 + z^2 =
\* (1 + surface_delta_radius)^2 (to the tick), and at way_back_z for every
\* other pixel; it ends the search at way_front_z in both cases.
C21_EntryPoint ==
  pc = "searching" =>
    LET r2 == px[1] * px[1] + px[2] * px[2]
        s2 == (BodyRadius + surface_delta_radius) * (BodyRadius + surface_delta_radius)
    IN  /\ z1 = way_front_z
        /\ IF r2 <= BodyRadius * BodyRadius
           THEN /\ z0 >= 0
                /\ z0 * z0 <= s2 - r2
                /\ (z0 + 1) * (z0 + 1) > s2 - r2
           ELSE z0 = way_back_z

\* C21 witness: the search is about to start for a pixel on the limb itself,
\* just above the surface.
C21_Witness ==
  /\ pc = "searching"
  /\ px[1] * px[1] + px[2] * px[2] = BodyRadius * BodyRadius
  /\ z0 > 0 /\ z0 < BodyRadius

\* C22: the ray BasicRayTracer._sample_ray returns has exactly nsamps
\* samples, the first at the refined z0, the last at the refined z1, and the
\* same distance between any two consecutive samples, for every density
\* profile.
C22_FixedCount ==
  (pc = "complete" /\ AnyAbove /\ setup.ray_tracer = "Basic") =>
    /\ Len(ray.z) = nsamps
    /\ ray.z[1] = z0 * ray.zden
    /\ ray.z[nsamps] = z1 * ray.zden
    /\ \A k \in 1..(nsamps - 1) :
          (ray.z[k + 1] - ray.z[k]) * (nsamps - 1) = (z1 - z0) * ray.zden

\* C22 witness: a fixed-count ray between two refined bounds.
C22_Witness ==
  /\ pc = "complete" /\ AnyAbove /\ setup.ray_tracer = "Basic"
  /\ z0 # EntryZ(px[1], px[2])
  /\ z1 # way_front_z
  /\ n_ops = 0

\* C25: whenever create_ray runs the root-find for the end bound, the density
\* is below the cutoff at way_front_z and above it at the last coarse sample
\* above the cutoff; and way_front_z is never one of the coarse samples.
C25_EndBracketValid ==
  /\ (pc = "refine_end" /\ nesamps[Len(nesamps)] < ne0_cutoff) =>
        /\ ofs_n_e(z1) < 0
        /\ ofs_n_e(SetMax(Above)) > 0
  /\ \A k \in 1..Len(zsamps) : zsamps[k] # way_front_z

\* C26: create_ray returns the empty ray only if the density is at or below
\* ne0_cutoff at every point of the line of sight from z0 to z1.
C26_EmptyOnlyIfNoParticles ==
  EmptyDone => \A t \in z0..z1 : z_to_ne(t) <= ne0_cutoff

\* C30: FormalRayTracer._sample_ray writes inside its buffer: the index of
\* the next write is below the buffer's row count; when the last row is
\* written the buffer doubles; a step keeps every earlier sample where it
\* was; and the ray returned holds exactly the i samples written.
C30_BufferInBounds ==
  /\ [](pc = "loop" => i < Len(buf))
  /\ [][(pc = "loop" /\ pc' = "loop") =>
          /\ i' = i + 1
          /\ Len(buf') = (IF i = Len(buf) - 1 THEN 2 * Len(buf) ELSE Len(buf))
          /\ \A k \in 1..i : buf'[k] = buf[k]
          /\ buf'[i + 1].z = z]_vars
  /\ [](FormalDone =>
          /\ Len(ray.z) = i
          /\ \A k \in 1..i : ray.z[k] = buf[k].z)

\* C30 witness: a ray whose buffer was doubled twice.
C30_Witness ==
  /\ FormalDone
  /\ Len(buf) = 4 * min_n_pts
  /\ i > 2 * min_n_pts

\* C23: in a parallel image computation of a PrecomputedImageMaker the frame
\* group is the dict of arrays in memory from before the first callback call
\* starts until image_ray_func returns, and no callback call reads a dataset
\* through the HDF5 handle.
C23_CacheInMemory ==
  /\ par_pc \in {"mapping", "done"} => cur_frame_group.kind = "dict"
  /\ \A k \in DOMAIN wk :
        wk[k].pc # "pending" => cur_frame_group.kind = "dict"
  /\ \A e \in par_log : e[1] # ParentCall => e[2] = "dict"

\* C23 witness: two callback calls are both half way through their rows and
\* have both read the arrays of the frame.
C23_Witness ==
  /\ par_pc = "mapping"
  /\ \E j, k \in DOMAIN wk :
        /\ j # k
        /\ wk[j].pc = "running" /\ wk[j].ix = 1
        /\ wk[k].pc = "running" /\ wk[k].ix = 1
        /\ {<<j, "dict", "counts">>, <<k, "dict", "p">>} \subseteq par_log

\* C24: every value of the image comes from a ray that the callback call of
\* its own row built and integrated; the ray a callback call holds is one it
\* built itself, for a pixel of its row; what the call hands back is its
\* buffer of nx values and nothing else.
C24_RaysStayInWorker ==
  /\ \A k \in DOMAIN wk :
        /\ wk[k].ray # NoWkRay =>
              /\ wk[k].ray.made_by = k
              /\ wk[k].ray.obj.iy = par_args.first_row + k
        /\ \A c \in 1..wk[k].ix :
              /\ wk[k].buf[c].made_by = k
              /\ wk[k].buf[c].integrated_by = k
              /\ wk[k].buf[c].of = <<c - 1, par_args.first_row + k>>
        /\ wk[k].pc = "returned" =>
              /\ par_rows[k] = wk[k].buf
              /\ Len(par_rows[k]) = nx
        /\ wk[k].pc # "returned" => par_rows[k] = <<>>
  /\ par_pc = "done" =>
        \A q \in DOMAIN par_image :
          /\ par_image[q].made_by = q[1]
          /\ par_image[q].integrated_by = q[1]
          /\ par_image[q].of = <<q[2], par_args.first_row + q[1]>>

\* C24 witness: a finished image of two rows that starts at row 0, so that
\* the pixel of the sample computation is one of its pixels.
C24_Witness ==
  /\ par_pc = "done"
  /\ par_args.first_row = 0
  /\ par_args.n_rows = 2
  /\ sample_ray.obj.made
  /\ par_image[<<0, 0>>].sum > 0

\* C27: image_ray_func returns the same array, shape and values, with
\* parallel=False as with parallel execution, for the same func, first_row
\* and n_rows, whatever the shape of func's value.
C27_ParallelEqualsSerial ==
  img_pc = "compared" => serial_image = image

\* the rows a group covers
GroupRows(k) ==
  {r \in 0..(seed.shape0 - 1) :
     seed.start_rows[k] <= r /\ r < seed.start_rows[k] + seed.row_heights[k]}

\* C28: the row groups of seed_cli are contiguous and disjoint and cover the
\* rows 0 .. n_rows - 1 of the frames exactly once: there are n_row_groups
\* of them, the first starts at row 0, each starts where the one before
\* ends, and the heights add up to n_rows; one task is printed for every
\* frame, frequency and group, with the start row and height of its group.
C28_RowGroupsPartition ==
  /\ seed_pc \in {"emitting", "done"} =>
        LET g == seed.n_row_groups
        IN  /\ Len(seed.start_rows) = g /\ Len(seed.row_heights) = g
            /\ seed.start_rows[1] = 0
            /\ \A k \in 1..(g - 1) :
                  seed.start_rows[k + 1] = seed.start_rows[k] + seed.row_heights[k]
            /\ \A k \in 1..g : seed.row_heights[k] >= 0
            /\ SeqSum(seed.row_heights) = seed.shape0
            /\ \A r \in 0..(seed.shape0 - 1) :
                  Cardinality({k \in 1..g : r \in GroupRows(k)}) = 1
  /\ seed_pc = "done" =>
        /\ Len(tasks) = seed.n_frames * seed.n_freq * seed.n_row_groups
        /\ seed.n_tasks = Len(tasks)
        /\ \A f \in 0..(seed.n_frames - 1), q \in 0..(seed.n_freq - 1),
              c \in 0..(seed.n_row_groups - 1) :
              /\ Cardinality({n \in 1..Len(tasks) : tasks[n].jobid = <<f, q, c>>}) = 1
              /\ \A n \in 1..Len(tasks) :
                    tasks[n].jobid = <<f, q, c>> =>
                      /\ tasks[n].frame_name = f /\ tasks[n].freq = q
                      /\ tasks[n].start_row = seed.start_rows[c + 1]
                      /\ tasks[n].n_rows = seed.row_heights[c + 1]

\* C28 witness: rows that do not divide evenly among three groups, for two
\* frames.
C28_Witness ==
  /\ seed_pc = "done"
  /\ seed.n_row_groups = 3
  /\ seed.shape0 = 5
  /\ seed.n_frames = 2
  /\ seed.row_heights = <<3, 1, 1>>

\* the rows a result file holds, by its name
FileRows(bits) ==
  name_start_row(bits)..(name_start_row(bits) + name_n_rows(bits) - 1)
\* no two files overlap: two files hold different rows, or the same rows of
\* two different images
NonOverlap(q) ==
  \A a, b \in 1..Len(q) :
    a # b =>
      \/ FileRows(q[a]) \cap FileRows(q[b]) = {}
      \/ /\ FileRows(q[a]) = FileRows(q[b])
         /\ image_id(q[a]) # image_id(q[b])
\* the orders the same files can be listed in
Orders(q) ==
  {[k \in 1..Len(q) |-> q[p[k]]] :
     p \in {f \in [1..Len(q) -> 1..Len(q)] :
              \A a, b \in 1..Len(q) : a # b => f[a] # f[b]}}
LastRow(q) == SetMax({name_start_row(q[k]) + name_n_rows(q[k]) : k \in 1..Len(q)})

\* C29: for result files that do not overlap, assemble_cli writes one array
\* for every image; the array has as many rows as the largest start_row +
\* height of the files, every file's rows are at start_row .. start_row +
\* height - 1 of the array of its image, and the output is the same for
\* every order in which the files are listed.
C29_AssembleOrderFree ==
  (asm_pc = "done" /\ NonOverlap(files)) =>
    /\ asm_out.kind = "ok"
    /\ DOMAIN asm_out.ds = {image_id(files[k]) : k \in 1..Len(files)}
    /\ \A id \in DOMAIN asm_out.ds :
          /\ Len(asm_out.ds[id].rows) = LastRow(files)
          /\ asm_out.ds[id].shape = <<n_vals, LastRow(files), nx>>
    /\ \A k \in 1..Len(files) :
          \A r \in 1..name_n_rows(files[k]) :
            asm_out.ds[image_id(files[k])].rows[name_start_row(files[k]) + r]
              = FileData(files[k])[r]
    /\ \A q \in Orders(files) : write(scan_all(NoAsm, q)) = asm_out

\* C29 witness: three files of two images, listed with the last rows first.
C29_Witness ==
  /\ asm_pc = "done"
  /\ NonOverlap(files)
  /\ Len(files) = 3
  /\ name_start_row(files[1]) > name_start_row(files[2])
  /\ image_id(files[1]) = image_id(files[2])
  /\ image_id(files[3]) # image_id(files[1])
  /\ name_start_row(files[3]) = name_start_row(files[1])

====
